---- MODULE Spec2Model ----
(***************************************************************************)
(* A model of the SIP user agent of VenusPR/SipJs.                         *)
(*                                                                         *)
(* Specification Spec: one INVITE session (lib/RTCSession, the file        *)
(* src/unnamed/part_002), outgoing or incoming, with its timers, its       *)
(* dialogs, the asynchronous media operations it waits for and the         *)
(* messages and user calls that reach it.  Every handler of the source is  *)
(* an operator from the state of the world (a record with one field per    *)
(* variable) to the state it leaves behind, so that a handler calling      *)
(* another (terminate -> ended -> _close) is a composition of operators    *)
(* and one action is one whole handler.  The record also carries what the  *)
(* handler did that is no state of the session: the messages it sent       *)
(* (out), the events it emitted (emitted), what it threw (raised) and what *)
(* it returned (ret), and the order of what it sent and emitted (trace).    *)
(* A property of a handler is stated of the record it yields in every      *)
(* reachable state.                                                        *)
(*                                                                         *)
(* Specification SpecMangle: the pure function mangleOffer applied to      *)
(* every SDP of bounded size under every hold state.                       *)
(***************************************************************************)
EXTENDS Integers, Sequences, FiniteSets, TLC

VARIABLES
  status,          \* RTCSession._status
  direction,       \* RTCSession._direction ("none" while null)
  dialog,          \* RTCSession._dialog: NoDialog or the Dialog object
  earlyDialogs,    \* RTCSession._earlyDialogs: the ids (remote tags) present
  is_confirmed,    \* RTCSession._is_confirmed
  late_sdp,        \* RTCSession._late_sdp
  rtcReady,        \* RTCSession._rtcReady
  isCanceled,      \* RTCSession.isCanceled
  localHold,       \* RTCSession._localHold
  remoteHold,      \* RTCSession._remoteHold
  timers,          \* RTCSession._timers: which setTimeout handles are armed
  sessionTimers,   \* RTCSession._sessionTimers
  inSessions,      \* this session is in ua._sessions
  connection,      \* RTCSession._connection: "none", "open", "closed"
  ict,             \* the INVITE client transaction of the initial INVITE
  ist,             \* request.server_transaction.state of the initial INVITE
  postAck,         \* terminate() replaced receiveRequest and listens to the IST
  pcInitial,       \* outgoing call: the pending step of sendInitialRequest
  pcAnswer,        \* incoming call: the pending step of answer()
  pc2xx,           \* outgoing call: the 2xx answer being applied
  pcReoffer,       \* hold/unhold/renegotiate: the local offer being created
  pcRemoteOffer,   \* re-INVITE/UPDATE received: the step pending
  pcAck,           \* late SDP: the answer of the ACK being applied
  pcReofferAnswer, \* the answer to a local re-offer being applied
  reqOut,          \* in-dialog requests sent and awaiting a final response
  sent,            \* how many of each message were sent so far (saturating)
  evCount,         \* how many of each event were emitted so far (saturating)
  hist,            \* what happened earlier that the properties refer to
  mSdp,            \* SpecMangle: the SDP handed to mangleOffer
  mHold,           \* SpecMangle: the hold flags of the session
  mOut,            \* SpecMangle: what mangleOffer returned
  uaRegister,      \* SpecReg: ua.configuration.register
  transportUp,     \* SpecReg: the UA's transport is connected
  registrator,     \* SpecReg: ua.registrator is set
  pub_gruu,        \* SpecReg: ua.contact.pub_gruu is set
  expires,         \* Registrator.expires, seconds
  cseq,            \* Registrator.cseq
  registrationTimer, \* Registrator.registrationTimer: the last handle, 0 null
  registered,      \* Registrator.registered
  registered_before, \* Registrator.registered_before
  applicant,       \* whose receiveResponse/onRequestTimeout are installed
  nict,            \* the REGISTER transactions awaiting a final response
  armed,           \* the setTimeout timers that are pending
  regHist,         \* what happened earlier that the properties refer to
  sender,          \* SpecSender: a RequestSender, its request and applicant
  ua,              \* SpecUa: the UA's status, its servers and transports
  inbound,         \* SpecInbound: the UA's tables and the request it received
  msg,             \* SpecMessage: an outgoing Message
  reinvite,        \* SpecReinvite: the sender of a re-INVITE and its session
  ackWait,         \* SpecAckWait: an answered INVITE, its timers and a clock
  dtmf,            \* SpecDtmf: a session's queue of DTMF tones and its senders
  uri,             \* SpecUri: a URI object
  nameAddr         \* SpecNameAddr: a NameAddrHeader

svars == <<status, direction, dialog, earlyDialogs, is_confirmed, late_sdp,
           rtcReady, isCanceled, localHold, remoteHold, timers, sessionTimers,
           inSessions, connection, ict, ist, postAck, pcInitial, pcAnswer,
           pc2xx, pcReoffer, pcRemoteOffer, pcAck, pcReofferAnswer, reqOut,
           sent, evCount, hist>>
mvars == <<mSdp, mHold, mOut>>
rvars == <<uaRegister, transportUp, registrator, pub_gruu, expires, cseq,
           registrationTimer, registered, registered_before, applicant, nict,
           armed, regHist>>
cvars == <<sender, ua, inbound, msg, reinvite, ackWait, dtmf, uri, nameAddr>>
vars == <<svars, mvars, rvars, cvars>>

(***************************************************************************)
(* Bounds.                                                                 *)
(***************************************************************************)
\* The counters of messages and events stop counting here.
CountCap == 2
\* The largest number of media sections of an SDP given to mangleOffer.
MaxMedia == 2
\* The largest number of re-offers in one session: those that hold, unhold
\* and renegotiate start and the INVITE and UPDATE requests of the peer.
MaxOffers == 2

Bump(n) == IF n < CountCap THEN n + 1 ELSE n

(***************************************************************************)
(* Values.                                                                 *)
(***************************************************************************)
NoDialog == [tag |-> "none"]
NewDialog(id) == [tag |-> id, uac_pending_reply |-> FALSE,
                  uas_pending_reply |-> FALSE, inUA |-> TRUE]

\* invite2xxTimer: "off", or the INVITE whose 200 it retransmits.
NoTimers == [ackTimer |-> FALSE, expiresTimer |-> FALSE,
             invite2xxTimer |-> "off", userNoAnswerTimer |-> FALSE]

Requests == {"INVITE", "CANCEL", "ACK", "BYE", "reINVITE", "UPDATE", "INFO"}

\* The messages and the events that are counted.
CountedMessages == {"CANCEL", "BYE"}
CountedEvents == {"accepted"}

\* The events that end a session, and those of its lifetime that are
\* recorded when they follow one.
TerminalEvents == {"failed", "ended"}
LifetimeEvents == TerminalEvents \cup {"progress", "accepted", "confirmed"}

Ev(name, originator, cause) ==
  [name |-> name, originator |-> originator, cause |-> cause]

Idle == [stage |-> "idle"]

\* The responses to the initial INVITE that are delivered: a 100 carries
\* nothing, a 2xx has a To-tag.  The peer has two To-tags, so that a forked
\* 2xx exists; its provisional responses have the first or none.
InviteResponses ==
  { r \in [status_code : {100, 180, 200, 299, 486},
            to_tag : {"t1", "t2", "none"},
            contact : BOOLEAN, body : BOOLEAN] :
      /\ r.status_code = 100 =>
            r.to_tag = "none" /\ ~r.contact /\ ~r.body
      /\ r.status_code < 200 =>
            ~r.body /\ r.to_tag \in {"t1", "none"}
      /\ r.status_code \in 200..299 => r.to_tag # "none"
      /\ r.status_code >= 300 =>
            r.to_tag = "t1" /\ ~r.contact /\ ~r.body }

(***************************************************************************)
(* The world as one record, and the step that installs a new one.  A       *)
(* handler starts with nothing sent, emitted, thrown or returned.          *)
(***************************************************************************)
World ==
  [status |-> status, direction |-> direction, dialog |-> dialog,
   earlyDialogs |-> earlyDialogs, is_confirmed |-> is_confirmed,
   late_sdp |-> late_sdp, rtcReady |-> rtcReady, isCanceled |-> isCanceled,
   localHold |-> localHold, remoteHold |-> remoteHold, timers |-> timers,
   sessionTimers |-> sessionTimers, inSessions |-> inSessions,
   connection |-> connection, ict |-> ict, ist |-> ist, postAck |-> postAck,
   pcInitial |-> pcInitial, pcAnswer |-> pcAnswer, pc2xx |-> pc2xx,
   pcReoffer |-> pcReoffer, pcRemoteOffer |-> pcRemoteOffer, pcAck |-> pcAck,
   pcReofferAnswer |-> pcReofferAnswer,
   reqOut |-> reqOut, sent |-> sent, evCount |-> evCount, hist |-> hist,
   out |-> <<>>, emitted |-> <<>>, trace |-> <<>>, raised |-> "none",
   ret |-> ""]

Commit(w) ==
  /\ status' = w.status
  /\ direction' = w.direction
  /\ dialog' = w.dialog
  /\ earlyDialogs' = w.earlyDialogs
  /\ is_confirmed' = w.is_confirmed
  /\ late_sdp' = w.late_sdp
  /\ rtcReady' = w.rtcReady
  /\ isCanceled' = w.isCanceled
  /\ localHold' = w.localHold
  /\ remoteHold' = w.remoteHold
  /\ timers' = w.timers
  /\ sessionTimers' = w.sessionTimers
  /\ inSessions' = w.inSessions
  /\ connection' = w.connection
  /\ ict' = w.ict
  /\ ist' = w.ist
  /\ postAck' = w.postAck
  /\ pcInitial' = w.pcInitial
  /\ pcAnswer' = w.pcAnswer
  /\ pc2xx' = w.pc2xx
  /\ pcReoffer' = w.pcReoffer
  /\ pcRemoteOffer' = w.pcRemoteOffer
  /\ pcAck' = w.pcAck
  /\ pcReofferAnswer' = w.pcReofferAnswer
  /\ reqOut' = w.reqOut
  /\ sent' = w.sent
  /\ evCount' = w.evCount
  /\ hist' = w.hist

\* What a handler returns.
Return(w, value) == [w EXCEPT !.ret = value]

Throw(w, e) == [w EXCEPT !.raised = e]
Threw(w) == w.raised # "none"

\* A message leaves the session.
Send(w, m) ==
  [w EXCEPT !.out = Append(@, m),
            !.trace = Append(@, m),
            !.sent = IF m \in CountedMessages
                     THEN [@ EXCEPT ![m] = Bump(@)] ELSE @,
            !.hist.afterTerminate =
               IF w.hist.terminateCalled THEN @ \cup {m} ELSE @,
            !.hist.afterCancel =
               IF w.hist.canceled THEN @ \cup {m} ELSE @]

\* EventEmitter.emit of one of the session's events.
Emit(w, e) ==
  [w EXCEPT !.emitted = Append(@, e),
            !.trace = Append(@, e.name),
            !.evCount = IF e.name \in CountedEvents
                        THEN [@ EXCEPT ![e.name] = Bump(@)] ELSE @,
            !.hist.afterCancel =
               IF w.hist.canceled THEN @ \cup {e.name} ELSE @,
            !.hist.terminal =
               IF e.name \in TerminalEvents /\ @ = "" THEN e.name ELSE @,
            !.hist.afterTerminal =
               IF w.hist.terminal # "" /\ e.name \in LifetimeEvents
               THEN @ \cup {e.name} ELSE @]

(***************************************************************************)
(* Collaborators whose code is not in the repository's sources: the        *)
(* transaction layer, the Dialog and the in-dialog request (section 4.3    *)
(* and 4.5 of the specification).                                          *)
(***************************************************************************)
\* IncomingRequest.reply on the initial INVITE, through its INVITE server
\* transaction (4.3, RFC 3261 section 17): the transaction passes a response
\* on while it is Proceeding, and a 2xx again while it is Accepted; a final
\* response moves it on.  name: how the response is counted.
ReplyAs(w, code, name) ==
  IF w.ist = "proceeding"
  THEN [Send(w, name) EXCEPT !.ist = IF code < 200 THEN @
                                     ELSE IF code < 300 THEN "accepted"
                                     ELSE "completed"]
  ELSE IF w.ist = "accepted" /\ code >= 200 /\ code < 300 THEN Send(w, name)
  ELSE w

Reply(w, code) == ReplyAs(w, code, (CASE code = 180 -> "r180"
                                      [] code = 200 -> "r200"
                                      [] code = 403 -> "r403"
                                      [] code = 408 -> "r408"
                                      [] code = 480 -> "r480"
                                      [] code = 487 -> "r487"
                                      [] code = 488 -> "r488"
                                      [] OTHER -> "r500"))

\* IncomingRequest.reply on a request received inside the dialog; the final
\* response ends the request that was pending on the UAS side of the dialog.
ReplyInDialog(w, m) ==
  LET w1 == Send(w, m)
  IN IF w1.dialog = NoDialog THEN w1
     ELSE [w1 EXCEPT !.dialog.uas_pending_reply = FALSE]

\* OutgoingRequest.cancel: the CANCEL of the initial INVITE (4.6.2).
Cancel(w) == Send(w, "CANCEL")

\* A Dialog cannot be built from a message without Contact.
DialogError(message) == ~message.contact

\* RTCSession_Request.send -> Dialog.sendRequest for ACK, BYE and INFO: the
\* request is built from the session's dialog, and cannot be without one.
SendRequest(w, method) ==
  IF w.dialog = NoDialog THEN Throw(w, "TypeError")
  ELSE [Send(w, method)
        EXCEPT !.hist.acked = @ \/ method = "ACK",
               !.hist.byeBeforeAck =
                  @ \/ (method = "BYE" /\ w.direction = "outgoing"
                                       /\ ~w.hist.acked)]

\* The same for a re-INVITE or an UPDATE: it stays pending on the UAC side of
\* the dialog until its final response (4.5).
SendReoffer(w, kind) ==
  IF w.dialog = NoDialog THEN Throw(w, "TypeError")
  ELSE LET w1 == Send(w, IF kind = "reINVITE" THEN "reINVITE" ELSE "UPDATE")
       IN [w1 EXCEPT !.dialog.uac_pending_reply = TRUE,
                     !.reqOut[kind] = "pending"]

(***************************************************************************)
(* RTCSession: closing, the terminal events, dialogs.                      *)
(***************************************************************************)
Close(w) ==
  IF w.status = "terminated" THEN w
  ELSE [w EXCEPT !.connection = IF @ = "open" THEN "closed" ELSE @,
                 !.timers = NoTimers,
                 !.sessionTimers.timer = "none",
                 !.sessionTimers.due = FALSE,
                 !.dialog = NoDialog,
                 !.earlyDialogs = {},
                 !.status = "terminated",
                 !.inSessions = FALSE]

Ended(w, originator, cause) == Emit(Close(w), Ev("ended", originator, cause))

Failed(w, originator, cause) == Emit(Close(w), Ev("failed", originator, cause))

\* The result is the world and whether the dialog exists now.
createDialog(w, message, type, early) ==
  LET id == IF type = "UAS" THEN "uas" ELSE message.to_tag
  IN IF early
     THEN IF id \in w.earlyDialogs THEN [w |-> w, ok |-> TRUE]
          ELSE IF DialogError(message)
               THEN [w |-> Failed(w, "remote", "INTERNAL_ERROR"), ok |-> FALSE]
               ELSE [w |-> [w EXCEPT !.earlyDialogs = @ \cup {id}], ok |-> TRUE]
     ELSE IF id \in w.earlyDialogs
          THEN [w |-> [w EXCEPT !.dialog = NewDialog(id),
                                !.earlyDialogs = @ \ {id}], ok |-> TRUE]
          ELSE IF DialogError(message)
               THEN [w |-> Failed(w, "remote", "INTERNAL_ERROR"), ok |-> FALSE]
               ELSE [w |-> [w EXCEPT !.dialog = NewDialog(id)], ok |-> TRUE]

acceptAndTerminate(w, response) ==
  LET cd == IF w.dialog # NoDialog THEN [w |-> w, ok |-> TRUE]
            ELSE createDialog(w, response, "UAC", FALSE)
      w1 == IF cd.ok THEN SendRequest(cd.w, "ACK") ELSE cd.w
      w2 == IF cd.ok /\ ~Threw(w1) THEN SendRequest(w1, "BYE") ELSE w1
  IN IF Threw(w2) THEN w2 ELSE [w2 EXCEPT !.status = "terminated"]

(***************************************************************************)
(* RTCSession.terminate.  options: status_code (0 when not given), cause.  *)
(***************************************************************************)
BadCode(code, low) == code < low \/ code >= 700

\* The switch on the status.
terminateInStatus(w, options) ==
    LET code == options.status_code
        r ==
          CASE w.status \in {"null", "invite_sent", "1xx_received"} ->
                 IF code # 0 /\ BadCode(code, 200) THEN Throw(w, "TypeError")
                 ELSE LET w1 == IF w.status = "1xx_received" THEN Cancel(w)
                                ELSE [w EXCEPT !.isCanceled = TRUE]
                      IN Failed([w1 EXCEPT !.status = "canceled"],
                                "local", "CANCELED")
            [] w.status \in {"waiting_for_answer", "answered"} ->
                 LET sc == IF code = 0 THEN 480 ELSE code
                 IN IF BadCode(sc, 300) THEN Throw(w, "TypeError")
                    ELSE Failed(Reply(w, sc), "local", "REJECTED")
            [] w.status \in {"waiting_for_ack", "confirmed"} ->
                 IF code # 0 /\ BadCode(code, 200) THEN Throw(w, "TypeError")
                 ELSE IF /\ w.status = "waiting_for_ack"
                         /\ w.direction = "incoming"
                         /\ w.ist # "terminated"
                      THEN LET d == w.dialog
                               w1 == Ended([w EXCEPT !.postAck = TRUE],
                                           "local", options.cause)
                           IN IF d = NoDialog THEN Throw(w1, "TypeError")
                              ELSE [w1 EXCEPT !.dialog = d]
                      ELSE LET w1 == SendRequest(w, "BYE")
                           IN IF Threw(w1) THEN w1
                              ELSE Ended(w1, "local", options.cause)
            [] OTHER -> w
    IN IF Threw(r) THEN r ELSE [r EXCEPT !.hist.terminateCalled = TRUE]

\* terminate without its check of the Terminated status.
terminate_NoStatusCheck(w, options) == terminateInStatus(w, options)

terminate(w, options) ==
  IF w.status = "terminated" THEN Throw(w, "InvalidStateError")
  ELSE terminateInStatus(w, options)

(***************************************************************************)
(* Session timers (RFC 4028).  se is the Session-Expires of the message:   *)
(* "absent" (or below the minimum), "unassigned" (a header that names no    *)
(* refresher), or the refresher it names.  The timer that is armed is      *)
(* due once its interval has passed since it was armed.                    *)
(***************************************************************************)
SessionExpires == {"absent", "unassigned", "uac", "uas"}

\* runSessionTimer that leaves a timer that is already armed running.
runSessionTimer_KeepsOldTimer(w) ==
  IF w.sessionTimers.timer # "none"
  THEN [w EXCEPT !.sessionTimers.running = TRUE]
  ELSE [w EXCEPT !.sessionTimers.running = TRUE,
                 !.sessionTimers.timer =
                    IF w.sessionTimers.refresher THEN "refresh" ELSE "expire",
                 !.sessionTimers.due = FALSE]

runSessionTimer(w) ==
  [w EXCEPT !.sessionTimers.running = TRUE,
            !.sessionTimers.timer =
               IF w.sessionTimers.refresher THEN "refresh" ELSE "expire",
            !.sessionTimers.due = FALSE]

handleSessionTimersInIncomingRequest(w, se) ==
  IF ~w.sessionTimers.enabled THEN w
  ELSE LET refresher == IF se \in {"absent", "unassigned"} THEN "uas" ELSE se
       IN runSessionTimer(
            [w EXCEPT !.sessionTimers.refresher = (refresher = "uas")])

\* The same with the refresher role taken only when the header names it.
handleSessionTimersInIncomingResponse_NamedOnly(w, se) ==
  IF ~w.sessionTimers.enabled THEN w
  ELSE runSessionTimer(
         [w EXCEPT !.sessionTimers.refresher = (se = "uac")])

handleSessionTimersInIncomingResponse(w, se) ==
  IF ~w.sessionTimers.enabled THEN w
  ELSE LET refresher == IF se \in {"absent", "unassigned"} THEN "uac" ELSE se
       IN runSessionTimer(
            [w EXCEPT !.sessionTimers.refresher = (refresher = "uac")])

(***************************************************************************)
(* Outgoing call: connect, sendInitialRequest, receiveInviteResponse.      *)
(***************************************************************************)
\* createLocalDescription: the flag goes down until the description is there.
createLocalDescription(w) == [w EXCEPT !.rtcReady = FALSE]

\* sendInitialRequest's userMediaSucceeded.
initialUserMediaSucceeded(w) ==
  IF w.status = "terminated" THEN [w EXCEPT !.pcInitial = Idle]
  ELSE createLocalDescription(
         Emit([w EXCEPT !.pcInitial = [stage |-> "offer"]],
              Ev("connecting", "", "")))

\* media: "gum" when getUserMedia is asked for, "none" when no media is.
connect(w, media) ==
  LET w1 == Emit([w EXCEPT !.isCanceled = FALSE,
                           !.connection = "open",
                           !.inSessions = TRUE,
                           !.direction = "outgoing"],
                 Ev("newRTCSession", "local", ""))
  IN IF media = "gum" THEN [w1 EXCEPT !.pcInitial = [stage |-> "gum"]]
     ELSE initialUserMediaSucceeded(w1)

\* sendInitialRequest's rtcSucceeded: the INVITE leaves.
initialRtcSucceeded(w) ==
  LET w1 == [w EXCEPT !.pcInitial = Idle, !.rtcReady = TRUE]
  IN IF w1.isCanceled \/ w1.status = "terminated" THEN w1
     ELSE Send([w1 EXCEPT !.status = "invite_sent", !.ict = "calling"],
               "INVITE")

\* A 2xx dropped once the session has its dialog.
receive2xxWithDialog_Dropped(w, response) == w

\* A 2xx when the session has its dialog: a retransmission, or the 2xx of
\* another branch of a forked INVITE.
receive2xxWithDialog(w, response) ==
  IF w.dialog.tag = response.to_tag
  THEN SendRequest(w, "ACK")
  ELSE IF DialogError(response) THEN w
       ELSE Send(Send(w, "ACK"), "BYE")

receiveInviteResponse(w, response) ==
  LET code == response.status_code
  IN
  IF w.dialog # NoDialog /\ code >= 200 /\ code <= 299
  THEN receive2xxWithDialog(w, response)
  ELSE IF w.isCanceled
  THEN LET w1 == [w EXCEPT !.isCanceled = FALSE]
       IN IF code >= 100 /\ code < 200 THEN Cancel(w1)
          ELSE IF code >= 200 /\ code < 299
               THEN acceptAndTerminate(w1, response)
               ELSE w1
  ELSE IF w.status \notin {"invite_sent", "1xx_received"} THEN w
  ELSE
    CASE code = 100 -> [w EXCEPT !.status = "1xx_received"]
      [] code > 100 /\ code < 200 ->
           IF response.to_tag = "none" THEN w
           ELSE LET cd == IF response.contact
                          THEN createDialog(w, response, "UAC", TRUE)
                          ELSE [w |-> w, ok |-> TRUE]
                IN IF ~cd.ok THEN cd.w
                   ELSE Emit([cd.w EXCEPT !.status = "1xx_received"],
                             Ev("progress", "remote", ""))
      [] code >= 200 /\ code < 300 ->
           LET w1 == [w EXCEPT !.status = "confirmed"]
           IN IF ~response.body
              THEN Failed(acceptAndTerminate(w1, response), "remote",
                          "BAD_MEDIA_DESCRIPTION")
              ELSE LET cd == createDialog(w1, response, "UAC", FALSE)
                   IN IF ~cd.ok THEN cd.w
                      ELSE [cd.w EXCEPT !.pc2xx =
                              [stage |-> "setRemote",
                               to_tag |-> response.to_tag,
                               contact |-> response.contact]]
      [] OTHER -> Failed(w, "remote", "SIP_FAILURE_CODE")

\* The 2xx answer was applied: setRemoteDescription's then().  What it throws
\* is caught by the catch() chained behind it.
remote2xxFailed(w) ==
  Failed(acceptAndTerminate([w EXCEPT !.pc2xx = Idle], w.pc2xx),
         "remote", "BAD_MEDIA_DESCRIPTION")

\* se: the Session-Expires of the 2xx.
remote2xxSucceeded(w, se) ==
  LET w1 == handleSessionTimersInIncomingResponse(w, se)
      w2 == Emit(w1, Ev("accepted", "remote", ""))
      w3 == SendRequest(w2, "ACK")
  IN IF Threw(w3) THEN remote2xxFailed([w3 EXCEPT !.raised = "none"])
     ELSE [Emit([w3 EXCEPT !.is_confirmed = TRUE],
                Ev("confirmed", "local", ""))
           EXCEPT !.pc2xx = Idle]

(***************************************************************************)
(* Callbacks of the transactions and of the transport.                     *)
(***************************************************************************)
onTransportError(w) ==
  IF w.status # "terminated"
  THEN terminate(w, [status_code |-> 500, cause |-> "CONNECTION_ERROR"])
  ELSE w

onRequestTimeout(w) ==
  IF w.status # "terminated"
  THEN terminate(w, [status_code |-> 408, cause |-> "REQUEST_TIMEOUT"])
  ELSE w

(***************************************************************************)
(* Incoming call: init_incoming, answer and its callbacks, the timers.     *)
(***************************************************************************)
confirmed(w, originator) ==
  Emit([w EXCEPT !.is_confirmed = TRUE], Ev("confirmed", originator, ""))

\* answer()'s remoteDescriptionSucceededOrNotNeeded.
answerRemoteSucceeded(w) ==
  createLocalDescription(
    Emit([w EXCEPT !.pcAnswer = [stage |-> "local"]],
         Ev("connecting", "", "")))

\* answer()'s userMediaSucceeded.
answerUserMediaSucceeded(w) ==
  IF w.status = "terminated" THEN [w EXCEPT !.pcAnswer = Idle]
  ELSE IF ~w.late_sdp THEN [w EXCEPT !.pcAnswer = [stage |-> "setRemote"]]
       ELSE answerRemoteSucceeded(w)

\* The listeners of the server transaction's stateChanged: the one that
\* terminate() added compares the session's state with Terminated.
\* The session has no property named state: this is what the listener that
\* terminate() puts on the server transaction reads as this.state.
istStateChanged(w) ==
  IF w.postAck /\ ("undefined") = "terminated"
  THEN LET w1 == SendRequest(w, "BYE")
       IN IF Threw(w1) THEN w1 ELSE [w1 EXCEPT !.dialog.inUA = FALSE]
  ELSE w

(***************************************************************************)
(* Local re-offers: hold, unhold, renegotiate, sendReinvite, sendUpdate.   *)
(***************************************************************************)
ReofferKinds == {"reINVITE", "UPDATEsdp", "UPDATE"}

isReadyToReOffer(w) ==
  /\ w.rtcReady
  /\ w.dialog # NoDialog
  /\ ~w.dialog.uac_pending_reply
  /\ ~w.dialog.uas_pending_reply

sendReinvite(w) ==
  [createLocalDescription(w) EXCEPT !.pcReoffer = @ \cup {"reINVITE"}]

sendUpdate(w, sdpOffer) ==
  IF sdpOffer
  THEN [createLocalDescription(w) EXCEPT !.pcReoffer = @ \cup {"UPDATEsdp"}]
  ELSE SendReoffer(w, "UPDATE")

hold(w, useUpdate) ==
  IF w.status \notin {"waiting_for_ack", "confirmed"} THEN Return(w, "false")
  ELSE IF w.localHold THEN Return(w, "false")
  ELSE IF ~isReadyToReOffer(w) THEN Return(w, "false")
  ELSE LET w1 == Emit([w EXCEPT !.localHold = TRUE], Ev("hold", "local", ""))
       IN Return(IF useUpdate THEN sendUpdate(w1, TRUE) ELSE sendReinvite(w1),
                 "true")

unhold(w, useUpdate) ==
  IF w.status \notin {"waiting_for_ack", "confirmed"} THEN Return(w, "false")
  ELSE IF ~w.localHold THEN Return(w, "false")
  ELSE IF ~isReadyToReOffer(w) THEN Return(w, "false")
  ELSE LET w1 == Emit([w EXCEPT !.localHold = FALSE],
                      Ev("unhold", "local", ""))
       IN Return(IF useUpdate THEN sendUpdate(w1, TRUE) ELSE sendReinvite(w1),
                 "true")

renegotiate(w, useUpdate) ==
  IF w.status \notin {"waiting_for_ack", "confirmed"} THEN Return(w, "false")
  ELSE IF ~isReadyToReOffer(w) THEN Return(w, "false")
  ELSE Return(IF useUpdate THEN sendUpdate(w, TRUE) ELSE sendReinvite(w),
              "true")

\* The eventHandlers.failed that hold, unhold and renegotiate pass on.
reofferFailed(w) ==
  terminate(w, [status_code |-> 500, cause |-> "WEBRTC_ERROR"])

\* The final response of the request ends what was pending on the UAC side
\* of the dialog (4.5).
ReofferAnswered(w, kind, result) ==
  LET w1 == [w EXCEPT !.reqOut[kind] = result]
  IN IF w1.dialog = NoDialog THEN w1
     ELSE [w1 EXCEPT !.dialog.uac_pending_reply = FALSE]

\* The callback that runSessionTimer arms.
sessionTimerFired(w) ==
  LET w1 == [w EXCEPT !.sessionTimers.timer = "none",
                      !.sessionTimers.due = FALSE]
  IN IF w1.status = "terminated" THEN w1
     ELSE IF w.sessionTimers.timer = "refresh" THEN sendUpdate(w1, FALSE)
     ELSE terminate(w1, [status_code |-> 408, cause |-> "REQUEST_TIMEOUT"])

\* sendInfo without its check of the status.
sendInfo_AnyStatus(w) == SendRequest(w, "INFO")

sendInfo(w) ==
  IF w.status \notin {"confirmed", "waiting_for_ack"}
  THEN Throw(w, "InvalidStateError")
  ELSE SendRequest(w, "INFO")

(***************************************************************************)
(* Requests of the peer: receiveRequest, receiveReinvite, receiveUpdate.   *)
(* request: method, body, se.  held: every audio and video section of the  *)
(* offer is sendonly or inactive.                                          *)
(***************************************************************************)
\* createLocalDescription of the answer (or of the offer of a late re-INVITE).
\* se: the Session-Expires of the request that is answered.
remoteOfferRtcSucceeded(w, se) ==
  LET w1 == handleSessionTimersInIncomingRequest(
              [w EXCEPT !.pcRemoteOffer = Idle, !.rtcReady = TRUE], se)
      w2 == ReplyInDialog(w1, "r200in")
  IN IF w.pcRemoteOffer.kind = "UPDATE" THEN w2
     ELSE [w2 EXCEPT !.status = "waiting_for_ack",
                     !.timers.invite2xxTimer = "reinvite",
                     !.timers.ackTimer = TRUE]

\* The case ACK without the late-SDP branch: any ACK confirms.
receiveAck_AnyAckConfirms(w, request) ==
  IF w.status # "waiting_for_ack" THEN w
  ELSE LET w1 == [w EXCEPT !.status = "confirmed",
                           !.timers.ackTimer = FALSE,
                           !.timers.invite2xxTimer = "off"]
       IN IF ~w1.is_confirmed THEN confirmed(w1, "remote") ELSE w1

\* receiveRequest's case ACK.
receiveAck(w, request) ==
  IF w.status # "waiting_for_ack" THEN w
  ELSE LET w1 == [w EXCEPT !.status = "confirmed",
                           !.timers.ackTimer = FALSE,
                           !.timers.invite2xxTimer = "off"]
       IN IF w1.late_sdp
          THEN IF ~request.body
               THEN terminate(w1, [status_code |-> 400,
                                   cause |-> "MISSING_SDP"])
               ELSE [w1 EXCEPT !.pcAck = [stage |-> "setRemote"]]
          ELSE IF ~w1.is_confirmed THEN confirmed(w1, "remote")
               ELSE w1

\* The status and the reply of an accepted CANCEL, before failed().
cancelReplied(w) == Reply([w EXCEPT !.status = "canceled"], 487)

\* The CANCEL taken in any status.
receiveCancel_AnyStatus(w) ==
  [Failed(cancelReplied(w), "remote", "CANCELED")
   EXCEPT !.hist.canceled = TRUE]

\* The CANCEL case of receiveRequest; hist.canceled records that the CANCEL
\* was taken.
receiveCancel(w) ==
  IF w.status \in {"waiting_for_answer", "answered"}
  THEN [Failed(cancelReplied(w), "remote", "CANCELED")
        EXCEPT !.hist.canceled = TRUE]
  ELSE w

receiveRequest(w, request) ==
  CASE request.method = "CANCEL" -> receiveCancel(w)
    [] request.method = "ACK" -> receiveAck(w, request)
    [] request.method = "BYE" ->
         IF w.status = "confirmed"
         THEN Ended(ReplyInDialog(w, "r200in"), "remote", "BYE")
         ELSE IF w.status = "invite_received"
              THEN Ended(Reply(ReplyInDialog(w, "r200in"), 487),
                         "remote", "BYE")
              ELSE ReplyInDialog(w, "r403")
    [] request.method = "INVITE" ->
         IF w.status = "confirmed" THEN (IF request.body
                                         THEN [w EXCEPT !.late_sdp = FALSE,
                                                        !.pcRemoteOffer = [stage |-> "setRemote", kind |-> "INVITE"]]
                                         ELSE createLocalDescription(
                                                [w EXCEPT !.late_sdp = TRUE,
                                                          !.pcRemoteOffer = [stage |-> "local", kind |-> "INVITE"]]))
         ELSE ReplyInDialog(w, "r403")
    [] request.method = "UPDATE" ->
         IF w.status = "confirmed" THEN (IF ~request.body
                                         THEN ReplyInDialog(handleSessionTimersInIncomingRequest(w, request.se),
                                                            "r200in")
                                         ELSE [w EXCEPT !.pcRemoteOffer = [stage |-> "setRemote", kind |-> "UPDATE"]])
         ELSE ReplyInDialog(w, "r403")
    [] OTHER -> w

\* The receiveRequest that terminate() installs while the ACK is awaited.
receiveRequestPostAck(w, request) ==
  IF request.method = "ACK"
  THEN LET w1 == SendRequest(w, "BYE")
       IN IF Threw(w1) THEN w1 ELSE [w1 EXCEPT !.dialog.inUA = FALSE]
  ELSE w

\* Dialog.receiveRequest: an INVITE or an UPDATE of the peer is refused
\* while another one is pending on either side, and is pending on the UAS
\* side until it is answered (4.5); the rest goes to the session.
DialogReceiveRequest(w, request) ==
  IF request.method \in {"INVITE", "UPDATE"} /\ w.dialog.uas_pending_reply
  THEN Send(w, "r500")
  ELSE IF request.method \in {"INVITE", "UPDATE"} /\ w.dialog.uac_pending_reply
  THEN Send(w, "r491")
  ELSE LET w1 == IF request.method \in {"INVITE", "UPDATE"}
                 THEN [w EXCEPT !.dialog.uas_pending_reply = TRUE]
                 ELSE w
       IN IF w1.postAck THEN receiveRequestPostAck(w1, request)
          ELSE receiveRequest(w1, request)

(***************************************************************************)
(* mangleOffer, on the parsed SDP: the sequence of its media sections,     *)
(* each with its type and its direction ("" when it has none).             *)
(***************************************************************************)
holdMediaTypes == {"audio", "video"}

\* The mangling with both hold flags set treated as a local hold.
mangleMedia_BothAsLocal(m, lHold, rHold) ==
  IF m.type \notin holdMediaTypes THEN m
  ELSE IF lHold
  THEN [m EXCEPT !.direction = IF @ = "" THEN "sendonly"
                               ELSE IF @ = "sendrecv" THEN "sendonly"
                               ELSE IF @ = "recvonly" THEN "inactive"
                               ELSE @]
  ELSE IF rHold
  THEN [m EXCEPT !.direction = IF @ = "" THEN "recvonly"
                               ELSE IF @ = "sendrecv" THEN "recvonly"
                               ELSE IF @ = "recvonly" THEN "inactive"
                               ELSE @]
  ELSE m

mangleMedia(m, lHold, rHold) ==
  IF m.type \notin holdMediaTypes THEN m
  ELSE IF lHold /\ ~rHold
  THEN [m EXCEPT !.direction =
          IF @ = "" THEN "sendonly"
          ELSE IF @ = "sendrecv" THEN "sendonly"
          ELSE IF @ = "recvonly" THEN "inactive"
          ELSE @]
  ELSE IF lHold /\ rHold
  THEN [m EXCEPT !.direction = "inactive"]
  ELSE IF rHold
  THEN [m EXCEPT !.direction =
          IF @ = "" THEN "recvonly"
          ELSE IF @ = "sendrecv" THEN "recvonly"
          ELSE IF @ = "recvonly" THEN "inactive"
          ELSE @]
  ELSE m

mangleOffer(sdp, lHold, rHold) ==
  IF ~lHold /\ ~rHold THEN sdp
  ELSE [i \in 1..Len(sdp) |-> mangleMedia(sdp[i], lHold, rHold)]

(***************************************************************************)
(* The client transactions of the session's own requests (4.3): a          *)
(* provisional response makes the INVITE client transaction Proceeding, a  *)
(* 2xx Accepted (its retransmissions still reach the session), another     *)
(* final response, a timeout or a transport error end it.                  *)
(***************************************************************************)
IctReceive(w, response) ==
  [w EXCEPT !.ict = IF response.status_code < 200 THEN "proceeding"
                    ELSE IF response.status_code < 300 THEN "accepted"
                    ELSE "terminated"]

\* target: "initial" or the kind of an in-dialog request.
ClientTransactionEnds(w, target) ==
  IF target = "initial" THEN [w EXCEPT !.ict = "terminated"]
  ELSE ReofferAnswered(w, target, "none")

ClientTransactionPending(target) ==
  IF target = "initial" THEN ict \in {"calling", "proceeding"}
  ELSE reqOut[target] = "pending"

InDialogRequests ==
  { r \in [method : {"ACK", "BYE", "INVITE", "UPDATE"}, body : BOOLEAN,
           se : SessionExpires] :
      /\ r.method # "UPDATE" \/ r.body => r.se = "absent"
      /\ r.method = "BYE" => ~r.body }

(***************************************************************************)
(* The initial state: a session as its constructor leaves it.              *)
(***************************************************************************)
InitSession ==
  /\ status = "null"
  /\ direction = "none"
  /\ dialog = NoDialog
  /\ earlyDialogs = {}
  /\ is_confirmed = FALSE
  /\ late_sdp = FALSE
  /\ rtcReady = TRUE
  /\ isCanceled = FALSE
  /\ localHold = FALSE
  /\ remoteHold = FALSE
  /\ timers = NoTimers
  /\ sessionTimers \in {[enabled |-> e, running |-> FALSE,
                         refresher |-> FALSE, timer |-> "none",
                         due |-> FALSE] :
                        e \in BOOLEAN}
  /\ inSessions = FALSE
  /\ connection = "none"
  /\ ict = "none"
  /\ ist = "none"
  /\ postAck = FALSE
  /\ pcInitial = Idle
  /\ pcAnswer = Idle
  /\ pc2xx = Idle
  /\ pcReoffer = {}
  /\ pcRemoteOffer = Idle
  /\ pcAck = Idle
  /\ pcReofferAnswer = FALSE
  /\ reqOut = [k \in ReofferKinds |-> "none"]
  /\ sent = [m \in CountedMessages |-> 0]
  /\ evCount = [e \in CountedEvents |-> 0]
  /\ hist = [terminateCalled |-> FALSE, afterTerminate |-> {},
             canceled |-> FALSE, afterCancel |-> {}, offers |-> 0,
             terminal |-> "", afterTerminal |-> {},
             acked |-> FALSE, byeBeforeAck |-> FALSE]

(***************************************************************************)
(* The Registrator (JsSIP.Registrator) and the UA's calls into it.         *)
(* Seconds and milliseconds are integers; a header or a parameter that is  *)
(* absent is NoValue.  Digest authentication, the temporary GRUU and       *)
(* UA.stop() are left out.                                                 *)
(***************************************************************************)
FirstCseq == 80

\* How many REGISTER requests a registrator builds at most.
MaxRegisters == 4

\* How many Contact headers a response carries at most.
MaxContacts == 2

NoValue == 0

\* Before the UA's transport has connected there is no registrator.
NoRegistrator ==
  /\ transportUp = FALSE
  /\ registrator = FALSE
  /\ pub_gruu = FALSE
  /\ cseq = FirstCseq
  /\ registrationTimer = 0
  /\ registered = FALSE
  /\ registered_before = FALSE
  /\ applicant = "none"
  /\ nict = {}
  /\ armed = {}
  /\ regHist = [unregisterCalled |-> FALSE, timersThen |-> {}]

\* No RequestSender has been constructed.
NoSender ==
  [constructed |-> FALSE, status |-> "ready", method |-> "REGISTER",
   credentials |-> FALSE, counter |-> "request", seqnum |-> 1,
   challenged |-> FALSE, staled |-> FALSE, cseq |-> 1, sent |-> <<>>,
   delivered |-> 0, errors |-> 0, responses |-> 0]

\* How many WebSocket servers the UA is configured with.
NServers == 2

\* new JsSIP.UA: wsStatus is ws_servers[i].status (0 ready, 1 disconnected,
\* 2 error), transport the server of ua.transport (0 when null), transports
\* the Transport made for each server, recovery the timer recoverTransport
\* sets, stopped whether the user's last call was stop(), errored the
\* servers that failed since the servers were last reset and reselected
\* those of them a Transport was made for since.
NewUa ==
  [status |-> "init", error |-> "none", transport |-> 0,
   weight |-> [i \in 1..NServers |-> 0],
   wsStatus |-> [i \in 1..NServers |-> 0],
   transports |-> [i \in 1..NServers |-> "none"],
   transportRecoverAttempts |-> 0,
   recovery |-> [pending |-> FALSE, server |-> 0, count |-> 0,
                 nextRetry |-> 0],
   shutdownGraceTimer |-> FALSE, stopped |-> FALSE, errored |-> {},
   reselected |-> {}]

\* The UA as receiveRequest sees it before any request: sessions and dialogs
\* are the keys of ua.sessions and ua.dialogs, replies what was passed to
\* request.reply, nist the state of the request's server transaction.
NoInbound ==
  [registered |-> FALSE, listener |-> FALSE, webrtc |-> TRUE,
   sessions |-> {}, dialogs |-> {},
   request |-> [method |-> "none"], replies |-> <<>>, nist |-> "none",
   newMessage |-> 0, created |-> FALSE, toSession |-> <<>>,
   toDialog |-> <<>>]

\* new Message(ua).  src/lib/Message.js defines the class twice: definition
\* 1 is the one of lines 10-265, definition 2 the one of lines 277-503.
\* callbacks counts the calls the request sender made, finals those that
\* were a final response, a timeout or a transport error.
NewMessage(definition) ==
  [definition |-> definition, direction |-> "none", closed |-> FALSE,
   applicant |-> FALSE, emitted |-> <<>>, callbacks |-> 0, finals |-> 0,
   userClosed |-> FALSE]

\* A session's request sender for a re-INVITE.  src/src/UA.js has two:
\* definition 1 is Session.RequestSender (3117-3173), definition 2 the
\* InDialogRequestSender of the other Session (1954-2017).  timer is the
\* delay of the pending reattempt timer in microseconds, -1 when none is set.
NewReinvite(definition, dir) ==
  [definition |-> definition, direction |-> dir,
   status |-> "confirmed", reattempt |-> FALSE, timer |-> -1,
   local_seqnum |-> 1, cseq |-> 1, sent |-> <<>>, pending |-> FALSE,
   delivered |-> <<>>]

\* A session whose answer() has run as far as the sending of the 200.  sent
\* holds what left and when, ackAt the time the ACK came, acks how many came.
NoAckWait ==
  [status |-> "answered", now |-> 0, timeout |-> 0, invite2xxTimer |-> -1,
   ackTimer |-> -1, sent |-> <<>>, emitted |-> <<>>, ackAt |-> -1, acks |-> 0]

\* A confirmed session that has sent no DTMF.  queued counts the tones that
\* were queued, calls the calls of sendDTMF; sent are the tones that left.
NoDtmf ==
  [status |-> "confirmed", tones |-> <<>>, senders |-> <<>>, sent |-> <<>>,
   inflight |-> {}, queued |-> 0, calls |-> 0, dropped |-> {}]

\* The URI sip:a; last is the operation that gave the URI its values.
NoUri ==
  [object |-> [definition |-> 1, scheme |-> <<"s", "i", "p">>, user |-> <<>>,
               host |-> <<"a">>, port |-> 0],
   last |-> "constructor"]

\* The header of the URI sip:a, without a display name and parameters.
NoNameAddr ==
  [header |-> [uri |-> [object |-> [definition |-> 2,
                                    scheme |-> <<"s", "i", "p">>,
                                    user |-> <<>>, host |-> <<"a">>,
                                    port |-> 0],
                        parameters |-> <<>>],
               display_name |-> <<>>, parameters |-> <<>>],
   last |-> "constructor"]

\* The session, the registrator and mangleOffer's input as constructed.
Idle3 ==
  /\ InitSession
  /\ mSdp = <<>>
  /\ mHold = [localHold |-> FALSE, remoteHold |-> FALSE]
  /\ mOut = [done |-> FALSE, sdp |-> <<>>]
  /\ NoRegistrator
  /\ uaRegister = FALSE
  /\ expires = 5

Init ==
  /\ Idle3
  /\ sender = NoSender
  /\ ua = NewUa
  /\ inbound = NoInbound
  /\ msg = NewMessage(1)
  /\ reinvite = NewReinvite(1, "outgoing")
  /\ ackWait = NoAckWait
  /\ dtmf = NoDtmf
  /\ uri = NoUri
  /\ nameAddr = NoNameAddr

(***************************************************************************)
(* Actions: the user's calls.                                              *)
(***************************************************************************)
Connect ==
  /\ status = "null" /\ direction = "none"
  /\ \E media \in {"gum", "none"} :
       Commit(connect(World, media))
  /\ UNCHANGED <<mvars, rvars, cvars>>

\* The INVITE that answer() builds the dialog from is the one init_incoming
\* built the early dialog from.
UserAnswer ==
  /\ direction # "none"
  /\ \E media \in {"gum", "none"} :
       Commit((LET w == World
               IN IF w.direction # "incoming" THEN Throw(w, "NotSupportedError")
                  ELSE IF w.status # "waiting_for_answer" THEN Throw(w, "InvalidStateError")
                  ELSE
                    LET w1 == [w EXCEPT !.status = "answered"]
                        cd == createDialog(w1, [contact |-> TRUE], "UAS", FALSE)
                    IN IF ~cd.ok THEN Reply(cd.w, 500)
                       ELSE LET w2 == [cd.w EXCEPT !.timers.userNoAnswerTimer = FALSE,
                                                   !.connection = "open"]
                            IN IF media = "gum"
                               THEN [w2 EXCEPT !.pcAnswer = [stage |-> "gum"]]
                               ELSE answerUserMediaSucceeded(w2)))
  /\ UNCHANGED <<mvars, rvars, cvars>>

\* status_code 0: no status_code given.
TerminateOptions == [status_code : {0, 200}, cause : {"BYE"}]

UserTerminate ==
  /\ direction # "none"
  /\ \E options \in TerminateOptions :
       Commit(terminate(World, options))
  /\ UNCHANGED <<mvars, rvars, cvars>>

\* A call that started a re-offer counts against MaxOffers.
CountOffer(w) ==
  IF w.ret = "true" THEN [w EXCEPT !.hist.offers = @ + 1] ELSE w

UserHold ==
  /\ direction # "none"
  /\ \E useUpdate \in BOOLEAN :
       LET w == hold(World, useUpdate)
       IN /\ hist.offers < MaxOffers \/ w.ret = "false"
          /\ Commit(CountOffer(w))
  /\ UNCHANGED <<mvars, rvars, cvars>>

UserUnhold ==
  /\ direction # "none"
  /\ \E useUpdate \in BOOLEAN :
       LET w == unhold(World, useUpdate)
       IN /\ hist.offers < MaxOffers \/ w.ret = "false"
          /\ Commit(CountOffer(w))
  /\ UNCHANGED <<mvars, rvars, cvars>>

UserRenegotiate ==
  /\ direction # "none"
  /\ \E useUpdate \in BOOLEAN :
       LET w == renegotiate(World, useUpdate)
       IN /\ hist.offers < MaxOffers \/ w.ret = "false"
          /\ Commit(CountOffer(w))
  /\ UNCHANGED <<mvars, rvars, cvars>>

UserSendInfo ==
  /\ direction # "none"
  /\ Commit(sendInfo(World))
  /\ UNCHANGED <<mvars, rvars, cvars>>

(***************************************************************************)
(* Actions: what the peer sends.                                           *)
(***************************************************************************)
\* request: body, contact, expires (an Expires header is present).
InitIncoming ==
  /\ status = "null" /\ direction = "none" /\ ist = "none"
  /\ \E request \in [body : BOOLEAN, contact : BOOLEAN, expires : BOOLEAN] :
       Commit((LET w == World
               IN LET w1 == [w EXCEPT !.status = "invite_received", !.inSessions = TRUE,
                                      !.ist = "proceeding"]
                      cd == createDialog(w1, request, "UAS", TRUE)
                  IN IF ~cd.ok THEN Reply(cd.w, 500)
                     ELSE LET w2 == [cd.w EXCEPT !.late_sdp = ~request.body,
                                                 !.status = "waiting_for_answer",
                                                 !.timers.userNoAnswerTimer = TRUE,
                                                 !.timers.expiresTimer = request.expires,
                                                 !.direction = "incoming"]
                              w3 == Emit(w2, Ev("newRTCSession", "remote", ""))
                          IN Emit(Reply(w3, 180), Ev("progress", "local", ""))))
  /\ UNCHANGED <<mvars, rvars, cvars>>

ReceiveInviteResponse ==
  /\ ict \in {"calling", "proceeding", "accepted"}
  /\ \E response \in InviteResponses :
       /\ ict = "accepted" => response.status_code \in 200..299
       /\ Commit(receiveInviteResponse(
                   IctReceive(World,
                              response),
                   response))
  /\ UNCHANGED <<mvars, rvars, cvars>>

\* The CANCEL of the INVITE that is still unanswered.
ReceiveCancel ==
  /\ inSessions /\ direction = "incoming" /\ ist = "proceeding"
  /\ LET request == [method |-> "CANCEL", body |-> FALSE, se |-> "absent"]
     IN Commit(receiveRequest(World, request))
  /\ UNCHANGED <<mvars, rvars, cvars>>

\* An INVITE or an UPDATE of the peer counts against MaxOffers.
CountPeerOffer(w, request) ==
  IF request.method \in {"INVITE", "UPDATE"}
  THEN [w EXCEPT !.hist.offers = @ + 1] ELSE w

\* A request inside the dialog, which the UA finds by the dialog's id.
ReceiveInDialogRequest ==
  /\ dialog # NoDialog /\ dialog.inUA
  /\ \E request \in InDialogRequests :
       /\ request.method \in {"INVITE", "UPDATE"} =>
             hist.offers < MaxOffers
       /\ Commit(DialogReceiveRequest(
                   CountPeerOffer(World, request), request))
  /\ UNCHANGED <<mvars, rvars, cvars>>

\* The responses to a re-INVITE or an UPDATE of the session.
\* onErrorResponse: the refresh UPDATE has no failed handler.
\* onSuccessResponse of sendReinvite and sendUpdate.  response: body, se.
ReceiveReofferResponse ==
  \E kind \in ReofferKinds,
     response \in [ok : BOOLEAN, body : BOOLEAN, se : SessionExpires] :
    /\ \/ reqOut[kind] = "pending"
       \/ reqOut[kind] = "succeeded" /\ kind = "reINVITE" /\ response.ok
    /\ ~response.ok => ~response.body /\ response.se = "absent"
    /\ LET w == World
       IN Commit(IF response.ok
                 THEN (LET retransmission == w.reqOut[kind] = "succeeded"
                           w0 == ReofferAnswered(w, kind,
                                                 IF kind = "reINVITE" THEN "succeeded" ELSE "none")
                       IN IF w0.status = "terminated" THEN w0
                          ELSE LET w1 == IF kind = "reINVITE" THEN SendRequest(w0, "ACK") ELSE w0
                               IN IF Threw(w1) \/ retransmission THEN w1
                                  ELSE LET w2 == handleSessionTimersInIncomingResponse(
                                                   w1, response.se)
                                       IN IF kind = "UPDATE"
                                          THEN handleSessionTimersInIncomingResponse(
                                                 w2, response.se)
                                          ELSE IF ~response.body THEN reofferFailed(w2)
                                               ELSE [w2 EXCEPT !.pcReofferAnswer = TRUE])
                 ELSE (LET w0 == ReofferAnswered(w, kind, "none")
                       IN IF kind = "UPDATE" THEN w0 ELSE reofferFailed(w0)))
    /\ UNCHANGED <<mvars, rvars, cvars>>

(***************************************************************************)
(* Actions: transactions and transport.                                    *)
(***************************************************************************)
Targets == {"initial"} \cup ReofferKinds

RequestTimeout ==
  \E target \in Targets :
    /\ ClientTransactionPending(target)
    /\ target = "initial" => ict = "calling"
    /\ Commit(onRequestTimeout(
                ClientTransactionEnds(World,
                                      target)))
    /\ UNCHANGED <<mvars, rvars, cvars>>

TransportError ==
  \E target \in Targets :
    /\ ClientTransactionPending(target)
    /\ Commit(onTransportError(
                ClientTransactionEnds(World,
                                      target)))
    /\ UNCHANGED <<mvars, rvars, cvars>>

\* The INVITE server transaction reaches Terminated.
IstTerminated ==
  /\ ist \in {"accepted", "completed"}
  /\ Commit(istStateChanged(
              [World EXCEPT !.ist = "terminated"]))
  /\ UNCHANGED <<mvars, rvars, cvars>>

(***************************************************************************)
(* Actions: the session's timers.                                          *)
(***************************************************************************)
UserNoAnswerTimeout ==
  /\ timers.userNoAnswerTimer
  /\ LET w == World
     IN Commit(
          Failed(Reply([w EXCEPT !.timers.userNoAnswerTimer = FALSE], 408),
                 "local", "NO_ANSWER"))
  /\ UNCHANGED <<mvars, rvars, cvars>>

ExpiresTimeout ==
  /\ timers.expiresTimer
  /\ LET w == World
     IN Commit(
          LET w1 == [w EXCEPT !.timers.expiresTimer = FALSE]
          IN IF w1.status = "waiting_for_answer"
             THEN Failed(Reply(w1, 487), "system", "EXPIRES")
             ELSE w1)
  /\ UNCHANGED <<mvars, rvars, cvars>>

\* setInvite2xxTimer's invite2xxRetransmission.
Invite2xxRetransmission ==
  /\ timers.invite2xxTimer # "off"
  /\ LET w == World
     IN Commit(
          IF w.status # "waiting_for_ack"
          THEN [w EXCEPT !.timers.invite2xxTimer = "off"]
          ELSE IF w.timers.invite2xxTimer = "initial" THEN ReplyAs(w, 200, "r200rtx")
          ELSE Send(w, "r200rtx"))
  /\ UNCHANGED <<mvars, rvars, cvars>>

\* setACKTimer's callback.
AckTimeout ==
  /\ timers.ackTimer
  /\ LET w == World
     IN Commit(
          LET w1 == [w EXCEPT !.timers.ackTimer = FALSE]
          IN IF w1.status # "waiting_for_ack" THEN w1
             ELSE LET w2 == SendRequest([w1 EXCEPT !.timers.invite2xxTimer = "off"],
                                        "BYE")
                  IN IF Threw(w2) THEN w2 ELSE Ended(w2, "remote", "NO_ACK"))
  /\ UNCHANGED <<mvars, rvars, cvars>>

\* The interval of the armed session timer passes.
SessionTimerElapses ==
  /\ sessionTimers.timer # "none" /\ ~sessionTimers.due
  /\ Commit([World EXCEPT !.sessionTimers.due = TRUE])
  /\ UNCHANGED <<mvars, rvars, cvars>>

SessionTimerFired ==
  /\ sessionTimers.timer # "none" /\ sessionTimers.due
  /\ Commit(sessionTimerFired(World))
  /\ UNCHANGED <<mvars, rvars, cvars>>

(***************************************************************************)
(* Actions: getUserMedia and the RTCPeerConnection settle a promise.  An   *)
(* operation of a closed RTCPeerConnection does not succeed.               *)
(***************************************************************************)
InitialUserMediaSucceeded ==
  /\ pcInitial.stage = "gum"
  /\ Commit(initialUserMediaSucceeded(World))
  /\ UNCHANGED <<mvars, rvars, cvars>>

InitialUserMediaFailed ==
  /\ pcInitial.stage = "gum"
  /\ LET w == World
     IN Commit(
          IF w.status = "terminated" THEN [w EXCEPT !.pcInitial = Idle]
          ELSE Failed([w EXCEPT !.pcInitial = Idle], "local",
                      "USER_DENIED_MEDIA_ACCESS"))
  /\ UNCHANGED <<mvars, rvars, cvars>>

InitialRtcSucceeded ==
  /\ pcInitial.stage = "offer" /\ connection = "open"
  /\ Commit(initialRtcSucceeded(World))
  /\ UNCHANGED <<mvars, rvars, cvars>>

InitialRtcFailed ==
  /\ pcInitial.stage = "offer"
  /\ LET w == World
     IN Commit(
          LET w1 == [w EXCEPT !.pcInitial = Idle, !.rtcReady = TRUE]
          IN IF w1.status = "terminated" THEN w1
             ELSE Failed(w1, "system", "WEBRTC_ERROR"))
  /\ UNCHANGED <<mvars, rvars, cvars>>

Remote2xxSucceeded ==
  /\ pc2xx.stage = "setRemote" /\ connection = "open"
  /\ \E se \in SessionExpires :
       Commit(remote2xxSucceeded(World, se))
  /\ UNCHANGED <<mvars, rvars, cvars>>

Remote2xxFailed ==
  /\ pc2xx.stage = "setRemote"
  /\ Commit(remote2xxFailed(World))
  /\ UNCHANGED <<mvars, rvars, cvars>>

AnswerUserMediaSucceeded ==
  /\ pcAnswer.stage = "gum"
  /\ Commit(answerUserMediaSucceeded(World))
  /\ UNCHANGED <<mvars, rvars, cvars>>

AnswerUserMediaFailed ==
  /\ pcAnswer.stage = "gum"
  /\ LET w == World
     IN Commit(
          IF w.status = "terminated" THEN [w EXCEPT !.pcAnswer = Idle]
          ELSE Failed(Reply([w EXCEPT !.pcAnswer = Idle], 480), "local",
                      "USER_DENIED_MEDIA_ACCESS"))
  /\ UNCHANGED <<mvars, rvars, cvars>>

AnswerRemoteSucceeded ==
  /\ pcAnswer.stage = "setRemote" /\ connection = "open"
  /\ Commit(answerRemoteSucceeded(World))
  /\ UNCHANGED <<mvars, rvars, cvars>>

AnswerRemoteFailed ==
  /\ pcAnswer.stage = "setRemote"
  /\ LET w == World
     IN Commit(
          Failed(Reply([w EXCEPT !.pcAnswer = Idle], 488), "system", "WEBRTC_ERROR"))
  /\ UNCHANGED <<mvars, rvars, cvars>>

\* se: the Session-Expires of the INVITE; sendOk: the transport took the 200.
\* answer()'s rtcSucceeded; sendOk: the transport took the 200.
AnswerRtcSucceeded ==
  /\ pcAnswer.stage = "local" /\ connection = "open"
  /\ \E se \in SessionExpires, sendOk \in BOOLEAN :
       Commit((LET w == World
               IN LET w1 == [w EXCEPT !.pcAnswer = Idle, !.rtcReady = TRUE]
                  IN IF w1.status = "terminated" THEN w1
                     ELSE LET w2 == handleSessionTimersInIncomingRequest(w1, se)
                          IN IF sendOk
                             THEN Emit([Reply(w2, 200)
                                        EXCEPT !.status = "waiting_for_ack",
                                               !.timers.invite2xxTimer = "initial",
                                               !.timers.ackTimer = TRUE],
                                       Ev("accepted", "local", ""))
                             ELSE Failed(w2, "system", "CONNECTION_ERROR")))
  /\ UNCHANGED <<mvars, rvars, cvars>>

AnswerRtcFailed ==
  /\ pcAnswer.stage = "local"
  /\ LET w == World
     IN Commit(
          LET w1 == [w EXCEPT !.pcAnswer = Idle, !.rtcReady = TRUE]
          IN IF w1.status = "terminated" THEN w1
             ELSE Failed(Reply(w1, 500), "system", "WEBRTC_ERROR"))
  /\ UNCHANGED <<mvars, rvars, cvars>>

\* The RTCPeerConnection settles its operations in the order in which they
\* were asked for: what was asked for after the answer of the 2xx settles
\* after it.
Pc2xxSettled == pc2xx = Idle

\* The ACK's answer was applied (late SDP): then() and catch().
AckAnswerSucceeded ==
  /\ Pc2xxSettled
  /\ pcAck.stage = "setRemote" /\ connection = "open"
  /\ LET w == World
     IN Commit(
          LET w1 == [w EXCEPT !.pcAck = Idle]
          IN IF ~w1.is_confirmed THEN confirmed(w1, "remote") ELSE w1)
  /\ UNCHANGED <<mvars, rvars, cvars>>

AckAnswerFailed ==
  /\ Pc2xxSettled
  /\ pcAck.stage = "setRemote"
  /\ LET w == World
     IN Commit(
          terminate([w EXCEPT !.pcAck = Idle],
                    [status_code |-> 488, cause |-> "BAD_MEDIA_DESCRIPTION"]))
  /\ UNCHANGED <<mvars, rvars, cvars>>

\* The offer of a re-INVITE or of an UPDATE is there: the request leaves.
ReofferRtcSucceeded ==
  /\ Pc2xxSettled
  /\ connection = "open"
  /\ \E kind \in pcReoffer :
       Commit((LET w == World
               IN SendReoffer([w EXCEPT !.pcReoffer = @ \ {kind}, !.rtcReady = TRUE], kind)))
  /\ UNCHANGED <<mvars, rvars, cvars>>

ReofferRtcFailed ==
  /\ Pc2xxSettled
  /\ \E kind \in pcReoffer :
       Commit((LET w == World
               IN reofferFailed([w EXCEPT !.pcReoffer = @ \ {kind}, !.rtcReady = TRUE])))
  /\ UNCHANGED <<mvars, rvars, cvars>>

ReofferAnswerSucceeded ==
  /\ Pc2xxSettled
  /\ pcReofferAnswer /\ connection = "open"
  /\ LET w == World
     IN Commit(
          [w EXCEPT !.pcReofferAnswer = FALSE])
  /\ UNCHANGED <<mvars, rvars, cvars>>

ReofferAnswerFailed ==
  /\ Pc2xxSettled
  /\ pcReofferAnswer
  /\ LET w == World
     IN Commit(
          reofferFailed([w EXCEPT !.pcReofferAnswer = FALSE]))
  /\ UNCHANGED <<mvars, rvars, cvars>>

\* setRemoteDescription of the peer's offer: then() and catch().
RemoteOfferSucceeded ==
  /\ Pc2xxSettled
  /\ pcRemoteOffer.stage = "setRemote" /\ connection = "open"
  /\ \E held \in BOOLEAN :
       Commit((LET w == World
               IN LET w1 == IF w.pcRemoteOffer.kind = "UPDATE" \/ ~w.late_sdp
                            THEN (IF w.remoteHold /\ ~held
                                  THEN Emit([w EXCEPT !.remoteHold = FALSE], Ev("unhold", "remote", ""))
                                  ELSE IF ~w.remoteHold /\ held
                                       THEN Emit([w EXCEPT !.remoteHold = TRUE], Ev("hold", "remote", ""))
                                       ELSE w)
                            ELSE w
                  IN createLocalDescription([w1 EXCEPT !.pcRemoteOffer.stage = "local"])))
  /\ UNCHANGED <<mvars, rvars, cvars>>

RemoteOfferFailed ==
  /\ Pc2xxSettled
  /\ pcRemoteOffer.stage = "setRemote"
  /\ LET w == World
     IN Commit(
          ReplyInDialog([w EXCEPT !.pcRemoteOffer = Idle], "r488"))
  /\ UNCHANGED <<mvars, rvars, cvars>>

RemoteOfferRtcSucceeded ==
  /\ Pc2xxSettled
  /\ pcRemoteOffer.stage = "local" /\ connection = "open"
  /\ \E se \in SessionExpires :
       Commit(remoteOfferRtcSucceeded(World, se))
  /\ UNCHANGED <<mvars, rvars, cvars>>

RemoteOfferRtcFailed ==
  /\ Pc2xxSettled
  /\ pcRemoteOffer.stage = "local"
  /\ LET w == World
     IN Commit(
          ReplyInDialog([w EXCEPT !.pcRemoteOffer = Idle, !.rtcReady = TRUE], "r500"))
  /\ UNCHANGED <<mvars, rvars, cvars>>

(***************************************************************************)
(* The session.                                                            *)
(***************************************************************************)
Next ==
  \/ Connect
  \/ UserAnswer
  \/ UserTerminate
  \/ UserHold
  \/ UserUnhold
  \/ UserRenegotiate
  \/ UserSendInfo
  \/ InitIncoming
  \/ ReceiveInviteResponse
  \/ ReceiveCancel
  \/ ReceiveInDialogRequest
  \/ ReceiveReofferResponse
  \/ RequestTimeout
  \/ TransportError
  \/ IstTerminated
  \/ UserNoAnswerTimeout
  \/ ExpiresTimeout
  \/ Invite2xxRetransmission
  \/ AckTimeout
  \/ SessionTimerElapses
  \/ SessionTimerFired
  \/ InitialUserMediaSucceeded
  \/ InitialUserMediaFailed
  \/ InitialRtcSucceeded
  \/ InitialRtcFailed
  \/ Remote2xxSucceeded
  \/ Remote2xxFailed
  \/ AnswerUserMediaSucceeded
  \/ AnswerUserMediaFailed
  \/ AnswerRemoteSucceeded
  \/ AnswerRemoteFailed
  \/ AnswerRtcSucceeded
  \/ AnswerRtcFailed
  \/ AckAnswerSucceeded
  \/ AckAnswerFailed
  \/ ReofferRtcSucceeded
  \/ ReofferRtcFailed
  \/ ReofferAnswerSucceeded
  \/ ReofferAnswerFailed
  \/ RemoteOfferSucceeded
  \/ RemoteOfferFailed
  \/ RemoteOfferRtcSucceeded
  \/ RemoteOfferRtcFailed

Spec == Init /\ [][Next]_vars

(***************************************************************************)
(* mangleOffer on its own: an offer of at most MaxMedia media sections and *)
(* any pair of hold flags, then one application of mangleOffer.            *)
(***************************************************************************)
InitMangle ==
  /\ InitSession
  /\ mSdp \in UNION {[1..n -> ([type : {"audio", "video", "application"},
                                direction : {"", "sendrecv", "sendonly", "recvonly", "inactive"}])] : n \in 0..MaxMedia}
  /\ mHold \in [localHold : BOOLEAN, remoteHold : BOOLEAN]
  /\ mOut = [done |-> FALSE, sdp |-> <<>>]
  /\ NoRegistrator
  /\ uaRegister = FALSE
  /\ expires = 5
  /\ sender = NoSender
  /\ ua = NewUa
  /\ inbound = NoInbound
  /\ msg = NewMessage(1)
  /\ reinvite = NewReinvite(1, "outgoing")
  /\ ackWait = NoAckWait
  /\ dtmf = NoDtmf
  /\ uri = NoUri
  /\ nameAddr = NoNameAddr

MangleOffer ==
  /\ ~mOut.done
  /\ mOut' = [done |-> TRUE,
              sdp |-> mangleOffer(mSdp, mHold.localHold, mHold.remoteHold)]
  /\ UNCHANGED <<mSdp, mHold, svars, rvars, cvars>>

SpecMangle == InitMangle /\ [][MangleOffer]_vars

(***************************************************************************)
(* The registrator's handlers, on a record of the registrator's state and  *)
(* what the handler sent (out) and emitted (emitted).                      *)
(***************************************************************************)
RegWorld ==
  [uaRegister |-> uaRegister, transportUp |-> transportUp,
   registrator |-> registrator, pub_gruu |-> pub_gruu,
   expires |-> expires, cseq |-> cseq,
   registrationTimer |-> registrationTimer, registered |-> registered,
   registered_before |-> registered_before, applicant |-> applicant,
   nict |-> nict, armed |-> armed, regHist |-> regHist,
   out |-> <<>>, emitted |-> <<>>]

RegCommit(w) ==
  /\ uaRegister' = w.uaRegister
  /\ transportUp' = w.transportUp
  /\ registrator' = w.registrator
  /\ pub_gruu' = w.pub_gruu
  /\ expires' = w.expires
  /\ cseq' = w.cseq
  /\ registrationTimer' = w.registrationTimer
  /\ registered' = w.registered
  /\ registered_before' = w.registered_before
  /\ applicant' = w.applicant
  /\ nict' = w.nict
  /\ armed' = w.armed
  /\ regHist' = w.regHist

\* this.ua.emit
UaEmit(w, name) == [w EXCEPT !.emitted = Append(@, name)]

\* window.setTimeout: a negative delay is a delay of 0.  The handle is the
\* CSeq of the response that armed the timer.
setTimeout(w, id, ms) ==
  [w EXCEPT !.armed = @ \cup {[id |-> id, delay |-> IF ms < 0 THEN 0 ELSE ms]},
            !.registrationTimer = id]

\* window.clearTimeout(this.registrationTimer)
clearTimeout(w) ==
  [w EXCEPT !.armed = {t \in @ : t.id # w.registrationTimer}]

registrationFailure(w, cause) ==
  LET w1 == UaEmit(w, "registrationFailed")
  IN IF w1.registered
     THEN UaEmit([w1 EXCEPT !.registered = FALSE], "unregistered")
     ELSE w1

unregistered(w, cause) ==
  UaEmit([w EXCEPT !.registered = FALSE], "unregistered")

\* The onTransportError or onRequestTimeout that is installed at the moment.
applicantError(w, cause) ==
  IF w.applicant = "register" THEN registrationFailure(w, cause)
  ELSE unregistered(w, cause)

\* RequestSender.send, and NonInviteClientTransaction.send: the request is
\* awaiting its final response, or the transport is down and the
\* transaction reports a transport error at once (4.3 of the specification).
RequestSenderSend(w, request) ==
  IF w.transportUp
  THEN [w EXCEPT !.nict = @ \cup {request}, !.out = Append(@, request)]
  ELSE applicantError(w, "CONNECTION_ERROR")

\* Registrator.register
register(w) ==
  LET w1 == [w EXCEPT !.cseq = @ + 1, !.applicant = "register"]
  IN RequestSenderSend(w1, [cseq |-> w1.cseq, contact |-> "ours",
                            expires |-> w.expires])

\* The Contact of a 2xx that the loop stops at: the last one with the UA's
\* URI; 0 when there is none.
OurContact(response) ==
  LET ours == {i \in 1..Len(response.contacts) : response.contacts[i].ours}
  IN IF ours = {} THEN 0 ELSE CHOOSE i \in ours : \A j \in ours : j <= i

\* The receiveResponse that register() installs; the 2xx case computes
\* the expires from the Contact the loop stops at, else the Expires header.
receiveRegisterResponse(w, response) ==
  IF response.cseq # w.cseq THEN w
  ELSE IF response.status_code \in 100..199 THEN w
  ELSE IF response.status_code \in 200..299
  THEN IF Len(response.contacts) = 0 THEN w
       ELSE UaEmit([setTimeout(w, response.cseq,
                               (LET i == OurContact(response)
                                    e == IF i # 0 THEN response.contacts[i].expires ELSE response.expires
                                IN IF e = NoValue THEN w.expires ELSE e) * 1000 - 3000)
                    EXCEPT !.pub_gruu = @ \/ response.pub_gruu,
                           !.registered = TRUE], "registered")
  ELSE IF response.status_code = 423
  THEN IF response.min_expires # NoValue
       THEN setTimeout(w, response.cseq, w.expires * 1000)
       ELSE registrationFailure(w, "SIP_FAILURE_CODE")
  ELSE registrationFailure(w, "sipErrorCause")

\* this.receiveResponse, whichever is installed.
\* The receiveResponse that unregister() installs.
receiveResponse(w, response) ==
  IF w.applicant = "register" THEN receiveRegisterResponse(w, response)
  ELSE (IF response.status_code \in 100..199 THEN w
        ELSE unregistered(w, "cause"))

onTransportClosed(w) ==
  LET w1 == clearTimeout([w EXCEPT !.registered_before = w.registered])
  IN IF w1.registered
     THEN UaEmit([w1 EXCEPT !.registered = FALSE], "unregistered")
     ELSE w1

\* new JsSIP.Registrator: the timers and the transactions of a registrator
\* that the UA held before stay with that one.
Registrator(w) ==
  register([w EXCEPT !.registrator = TRUE, !.cseq = FirstCseq,
                     !.registrationTimer = 0, !.registered = FALSE,
                     !.registered_before = FALSE, !.nict = {}, !.armed = {}])

\* JsSIP.UA.prototype.register and unregister; the UA is ready once its
\* transport has connected.
UaRegister(w) ==
  register([w EXCEPT !.uaRegister = TRUE,
                     !.regHist = [unregisterCalled |-> FALSE,
                                  timersThen |-> {}]])

\* JsSIP.UA.prototype.onTransportClosed: every client transaction gets the
\* transport error, then closeSessionsOnTransportError runs the
\* registrator's onTransportClosed.
RECURSIVE TransportErrors(_, _)
TransportErrors(w, n) ==
  IF n = 0 THEN w
  ELSE TransportErrors(applicantError(w, "CONNECTION_ERROR"), n - 1)

UaOnTransportClosed(w) ==
  LET w1 == TransportErrors([w EXCEPT !.transportUp = FALSE, !.nict = {}],
                            Cardinality(w.nict))
  IN IF ~w1.pub_gruu /\ w1.registrator THEN onTransportClosed(w1) ELSE w1

\* The responses of the registrar to the request with this CSeq: a 2xx with
\* or without an Expires header of 6 and with Contacts, each with the UA's
\* URI or another and with or without an expires parameter of 7; a 423 with
\* or without a Min-Expires of 9; a 100 and a 500.  pub_gruu: the Contact
\* that the loop of the 2xx case stops at has a pub-gruu parameter.
RegisterResponses(c) ==
  [cseq : {c}, status_code : {200}, expires : {NoValue, 6},
   contacts : UNION {[1..n -> [ours : BOOLEAN, expires : {NoValue, 7}]] :
                     n \in 0..MaxContacts},
   min_expires : {NoValue}, pub_gruu : BOOLEAN]
  \cup [cseq : {c}, status_code : {423}, expires : {NoValue},
        contacts : {<<>>}, min_expires : {NoValue, 9}, pub_gruu : {FALSE}]
  \cup [cseq : {c}, status_code : {100, 500}, expires : {NoValue},
        contacts : {<<>>}, min_expires : {NoValue}, pub_gruu : {FALSE}]

(***************************************************************************)
(* The registrator's specification: the UA's configuration, then the       *)
(* transport connecting and closing, the user's register() and             *)
(* unregister(), the registrar's responses, timeouts and timers.           *)
(***************************************************************************)
InitReg ==
  /\ InitSession
  /\ mSdp = <<>>
  /\ mHold = [localHold |-> FALSE, remoteHold |-> FALSE]
  /\ mOut = [done |-> FALSE, sdp |-> <<>>]
  /\ NoRegistrator
  /\ uaRegister \in BOOLEAN
  /\ expires \in {1, 5}
  /\ sender = NoSender
  /\ ua = NewUa
  /\ inbound = NoInbound
  /\ msg = NewMessage(1)
  /\ reinvite = NewReinvite(1, "outgoing")
  /\ ackWait = NoAckWait
  /\ dtmf = NoDtmf
  /\ uri = NoUri
  /\ nameAddr = NoNameAddr

RegStep(w) ==
  /\ w.cseq <= FirstCseq + MaxRegisters
  /\ RegCommit(w)
  /\ UNCHANGED <<svars, mvars, cvars>>

\* JsSIP.UA.prototype.onTransportConnected; the registrator's
\* onTransportConnected is register().
TransportConnected ==
  /\ ~transportUp
  /\ LET w1 == [RegWorld EXCEPT !.transportUp = TRUE,
                                !.regHist = [unregisterCalled |-> FALSE,
                                             timersThen |-> {}]]
     IN RegStep(IF w1.uaRegister
                THEN IF w1.registrator THEN register(w1)
                     ELSE UaRegister(Registrator(w1))
                ELSE Registrator(w1))

TransportClosed ==
  /\ transportUp
  /\ RegStep(UaOnTransportClosed(RegWorld))

UserRegister ==
  /\ registrator
  /\ RegStep(UaRegister(RegWorld))

\* JsSIP.UA.prototype.unregister, then Registrator.unregister.
UserUnregister ==
  /\ registrator
  /\ \E all \in BOOLEAN :
       LET w == [RegWorld EXCEPT
                   !.uaRegister = FALSE,
                   !.regHist = [unregisterCalled |-> TRUE,
                                timersThen |-> {t.id : t \in armed}]]
           w1 == clearTimeout([w EXCEPT !.registered = FALSE])
           w2 == [w1 EXCEPT !.cseq = @ + 1, !.applicant = "unregister"]
       IN RegStep(IF ~w.registered THEN w
                  ELSE RequestSenderSend(
                         w2, [cseq |-> w2.cseq,
                              contact |-> IF all THEN "*" ELSE "ours",
                              expires |-> 0]))

ReceiveRegisterResponse ==
  \E t \in nict : \E response \in RegisterResponses(t.cseq) :
    RegStep(receiveResponse(
              [RegWorld EXCEPT !.nict = IF response.status_code < 200 THEN @
                                        ELSE @ \ {t}],
              response))

RegisterTimeout ==
  \E t \in nict :
    RegStep(applicantError([RegWorld EXCEPT !.nict = @ \ {t}],
                           "REQUEST_TIMEOUT"))

RegistrationTimerFired ==
  \E t \in armed :
    RegStep(register([RegWorld EXCEPT !.armed = @ \ {t}]))

NextReg ==
  \/ TransportConnected
  \/ TransportClosed
  \/ UserRegister
  \/ UserUnregister
  \/ ReceiveRegisterResponse
  \/ RegisterTimeout
  \/ RegistrationTimerFired

SpecReg == InitReg /\ [][NextReg]_vars

(***************************************************************************)
(* RequestSender on its own: one sender, the status of the UA, the method  *)
(* of the request, whether the UA has a password or ha1, and where the     *)
(* CSeq of a resend comes from -- the registrator's cseq ("applicant"),    *)
(* the dialog's local_seqnum ("dialog"), or the request ("request");       *)
(* seqnum is that counter, never behind the request's cseq.                *)
(***************************************************************************)
\* How many responses a sender is handed at most.
MaxSenderResponses == 4

\* constructor; onTransportError() calls the applicant's.
RequestSender_constructor(s) ==
  LET s1 == [s EXCEPT !.constructed = TRUE, !.challenged = FALSE,
                      !.staled = FALSE]
  IN IF s.status = "user_closed" /\ (s.method # "BYE" \/ s.method # "ACK")
     THEN [s1 EXCEPT !.errors = @ + 1]
     ELSE s1

\* send(): the client transaction puts the request on the wire.
RequestSender_send(s) == [s EXCEPT !.sent = Append(@, s.cseq)]

\* The resend of a stale challenge whatever was resent before.
RequestSender_receiveResponse_AnyStale(s, response) ==
  IF /\ response.status_code \in {401, 407} /\ s.credentials
     /\ response.challenge # "none"
     /\ ~s.challenged \/ response.stale
     /\ response.challenge = "valid"
  THEN LET c == IF s.counter = "request" THEN s.cseq + 1 ELSE s.seqnum + 1
       IN RequestSender_send(
            [s EXCEPT !.challenged = TRUE,
                      !.staled = @ \/ response.stale,
                      !.seqnum = IF s.counter = "request" THEN @ ELSE c,
                      !.cseq = c])
  ELSE [s EXCEPT !.delivered = @ + 1]

\* receiveResponse: challenge is "none" when the header is missing or
\* wrong, "invalid" when DigestAuthentication.authenticate refuses it.
RequestSender_receiveResponse(s, response) ==
  IF /\ response.status_code \in {401, 407} /\ s.credentials
     /\ response.challenge # "none"
     /\ ~s.challenged \/ (~s.staled /\ response.stale)
     /\ response.challenge = "valid"
  THEN LET c == IF s.counter = "request" THEN s.cseq + 1 ELSE s.seqnum + 1
       IN RequestSender_send(
            [s EXCEPT !.challenged = TRUE,
                      !.staled = @ \/ response.stale,
                      !.seqnum = IF s.counter = "request" THEN @ ELSE c,
                      !.cseq = c])
  ELSE [s EXCEPT !.delivered = @ + 1]

InitSender ==
  /\ Idle3
  /\ ua = NewUa
  /\ inbound = NoInbound
  /\ msg = NewMessage(1)
  /\ reinvite = NewReinvite(1, "outgoing")
  /\ ackWait = NoAckWait
  /\ dtmf = NoDtmf
  /\ uri = NoUri
  /\ nameAddr = NoNameAddr
  /\ \E st \in {"ready", "user_closed"},
        method \in {"REGISTER", "INVITE", "BYE", "ACK"},
        credentials \in BOOLEAN,
        counter \in {"applicant", "dialog", "request"},
        seqnum \in 1..2 :
       /\ counter = "applicant" <=> method = "REGISTER"
       /\ counter = "request" => seqnum = 1
       /\ sender = [NoSender EXCEPT !.status = st, !.method = method,
                                    !.credentials = credentials,
                                    !.counter = counter, !.seqnum = seqnum]

SenderStep(s) ==
  /\ sender' = s
  /\ UNCHANGED <<svars, mvars, rvars, ua, inbound, msg, reinvite, ackWait, dtmf, uri, nameAddr>>

SenderConstructed ==
  /\ ~sender.constructed
  /\ SenderStep(RequestSender_constructor(sender))

SenderSend ==
  /\ sender.constructed /\ sender.sent = <<>>
  /\ SenderStep(RequestSender_send(sender))

SenderReceiveResponse ==
  /\ sender.sent # <<>> /\ sender.responses < MaxSenderResponses
  /\ \E response \in [status_code : {200, 401, 407},
                      challenge : {"none", "invalid", "valid"},
                      stale : BOOLEAN] :
       /\ response.status_code = 200
          => response.challenge = "none" /\ ~response.stale
       /\ response.challenge = "none" => ~response.stale
       /\ SenderStep(RequestSender_receiveResponse(
                       [sender EXCEPT !.responses = @ + 1], response))

NextSender ==
  \/ SenderConstructed
  \/ SenderSend
  \/ SenderReceiveResponse

SpecSender == InitSender /\ [][NextSender]_vars

(***************************************************************************)
(* The UA's status and its transports (JsSIP.UA in src/src/UA.js).  The    *)
(* Transport is not in the sources: a Transport that was never connected   *)
(* is "connecting"; one that lost its connection is "reconnecting" and     *)
(* either connects again or reports the error; disconnect() leaves it      *)
(* "disconnected" and connect() opens it again; the UA's transport is the   *)
(* last one made (3 and 4.1 of the specification).                         *)
(* What the registrator does on these events is in SpecReg.                *)
(***************************************************************************)
\* connection_recovery_min_interval and connection_recovery_max_interval
MinInterval == 2
MaxInterval == 5

\* How far transportRecoverAttempts is followed.
MaxAttempts == 2

\* getNextWsServer's candidates after its loop over the first n servers.
RECURSIVE Candidates(_, _)
Candidates(u, n) ==
  IF n = 0 THEN {}
  ELSE LET c == Candidates(u, n - 1)
       IN IF u.wsStatus[n] = 2 THEN c
          ELSE IF c = {} THEN {n}
          ELSE LET first == CHOOSE j \in c : \A k \in c : j <= k
               IN IF u.weight[n] > u.weight[first] THEN {n}
                  ELSE IF u.weight[n] = u.weight[first] THEN c \cup {n}
                  ELSE c

\* getNextWsServer without its test of the servers' status.
getNextWsServer_AnyStatus(u) ==
  {i \in 1..NServers : \A j \in 1..NServers : u.weight[j] <= u.weight[i]}

\* getNextWsServer: what it can return; 0 is undefined.
getNextWsServer(u) ==
  IF Candidates(u, NServers) = {} THEN {0} ELSE Candidates(u, NServers)

\* new JsSIP.Transport(ua, server): the Transport binds itself to the UA in
\* place of the one before it and starts to connect.
NewTransport(u, server) ==
  IF server = 0 THEN u
  ELSE [u EXCEPT !.transport = server,
                 !.transports[server] = "connecting",
                 !.reselected = @ \cup ({server} \cap u.errored)]

UA_onTransportClosed(u, transport) ==
  [u EXCEPT !.wsStatus[transport] = 1]

\* recoverTransport; k is the random factor, from 1 to 2^count.
recoverTransport(u, server, k) ==
  LET retry == k * MinInterval
  IN [u EXCEPT !.recovery =
                  [pending |-> TRUE, server |-> server,
                   count |-> IF retry > MaxInterval THEN 0
                             ELSE u.transportRecoverAttempts,
                   nextRetry |-> IF retry > MaxInterval THEN MinInterval
                                 ELSE retry]]

\* The servers as recoverTransport resets them.
ServersReset(u) ==
  [u EXCEPT !.wsStatus = [i \in 1..NServers |-> 0], !.errored = {}]

UA_onTransportConnected(u, transport) ==
  LET u1 == [u EXCEPT !.transport = transport,
                      !.transportRecoverAttempts = 0,
                      !.wsStatus[transport] = 0]
  IN IF u1.status = "user_closed" THEN u1
     ELSE [u1 EXCEPT !.status = "ready", !.error = "none"]

InitUa ==
  /\ Idle3
  /\ sender = NoSender
  /\ \E weight \in [1..NServers -> 0..1] : ua = [NewUa EXCEPT !.weight = weight]
  /\ inbound = NoInbound
  /\ msg = NewMessage(1)
  /\ reinvite = NewReinvite(1, "outgoing")
  /\ ackWait = NoAckWait
  /\ dtmf = NoDtmf
  /\ uri = NoUri
  /\ nameAddr = NoNameAddr

UaStep(u) ==
  /\ ua' = u
  /\ UNCHANGED <<svars, mvars, rvars, sender, inbound, msg, reinvite, ackWait, dtmf, uri, nameAddr>>

\* start(); server is the one getNextWsServer returned.
UserStart ==
  \E server \in getNextWsServer(ua) :
    LET u == ua
    IN UaStep(IF u.status = "init" THEN NewTransport(u, server)
              ELSE IF u.status = "user_closed"
              THEN [u EXCEPT !.status = "ready", !.stopped = FALSE,
                             !.transports[u.transport] =
                                IF @ \in {"disconnected", "failed"}
                                THEN "connecting" ELSE @]
              ELSE u)

\* stop(), which throws unless the UA is ready.
UserStop ==
  /\ ua.status = "ready"
  /\ UaStep((LET u == ua
             IN IF u.status # "ready" THEN u
                ELSE [u EXCEPT !.status = "user_closed", !.shutdownGraceTimer = TRUE,
                               !.stopped = TRUE]))

\* The timer of stop(): ua.transport.disconnect(), and the Transport's
\* report of the closure when it was open.
ShutdownGraceTimerFired ==
  /\ ua.shutdownGraceTimer
  /\ LET u == [ua EXCEPT !.shutdownGraceTimer = FALSE]
         t == ua.transport
     IN IF ua.transports[t] = "open"
        THEN UaStep(UA_onTransportClosed(
                      [u EXCEPT !.transports[t] = "disconnected"], t))
        ELSE UaStep([u EXCEPT !.transports[t] =
                                 IF @ = "failed" THEN @ ELSE "disconnected"])

TransportOpens ==
  \E t \in 1..NServers :
    /\ ua.transports[t] \in {"connecting", "reconnecting"}
    /\ UaStep(UA_onTransportConnected(
                [ua EXCEPT !.transports[t] = "open"], t))

TransportCloses ==
  \E t \in 1..NServers :
    /\ ua.transports[t] = "open"
    /\ UaStep(UA_onTransportClosed(
                [ua EXCEPT !.transports[t] = "reconnecting"], t))

\* onTransportError; server is what its getNextWsServer gives, recovered
\* and k what recoverTransport's getNextWsServer and Math.random give.
TransportFails ==
  \E t \in 1..NServers :
    /\ ua.transports[t] \in {"connecting", "reconnecting"}
    /\ LET u1 == [ua EXCEPT !.transports[t] = "failed",
                            !.wsStatus[t] = 2, !.errored = @ \cup {t}]
           u2 == IF u1.error # "network"
                 THEN [u1 EXCEPT !.status = "not_ready", !.error = "network"]
                 ELSE u1
       IN \E server \in getNextWsServer(u1) :
          \E recovered \in getNextWsServer(ServersReset(u1)) :
          \E k \in 1..(2 ^ ua.transportRecoverAttempts) :
             UaStep(IF server # 0 THEN NewTransport(u1, server)
                    ELSE recoverTransport(ServersReset(u2), recovered, k))

\* The timer of recoverTransport.
RecoveryTimerFired ==
  /\ ua.recovery.pending
  /\ ua.recovery.count < MaxAttempts
  /\ UaStep(NewTransport(
              [ua EXCEPT !.recovery.pending = FALSE,
                         !.transportRecoverAttempts = ua.recovery.count + 1],
              ua.recovery.server))

NextUa ==
  \/ UserStart
  \/ UserStop
  \/ ShutdownGraceTimerFired
  \/ TransportOpens
  \/ TransportCloses
  \/ TransportFails
  \/ RecoveryTimerFired

SpecUa == InitUa /\ [][NextUa]_vars

(***************************************************************************)
(* The UA's dispatch of inbound requests (JsSIP.UA.prototype.receiveRequest *)
(* in src/src/UA.js).  Sessions and dialogs stand for themselves: what a    *)
(* session or a dialog does with a request it is handed is in Spec.         *)
(***************************************************************************)
CallIds == {"c1"}
RequestTags == {"a", "b"}

\* request.reply and request.reply_sl; a final response completes the
\* request's server transaction.
request_reply(d, code) ==
  [d EXCEPT !.replies = Append(@, code),
            !.nist = IF @ = "trying" THEN "completed" ELSE @]

\* Message.init_incoming (src/lib/Message.js)
Message_init_incoming(d) ==
  LET d1 == [d EXCEPT !.newMessage = @ + 1]
  IN IF d1.nist \in {"trying", "proceeding"} THEN request_reply(d1, 200)
     ELSE d1

\* findSession: the key found in ua.sessions, <<>> for null.
findSession(d, request) ==
  IF <<request.call_id, request.from_tag>> \in d.sessions
  THEN <<request.call_id, request.from_tag>>
  ELSE IF <<request.call_id, request.to_tag>> \in d.sessions
  THEN <<request.call_id, request.to_tag>>
  ELSE <<>>

\* findDialog: the key found in ua.dialogs, <<>> for null.
findDialog(d, request) ==
  IF <<request.call_id, request.from_tag, request.to_tag>> \in d.dialogs
  THEN <<request.call_id, request.from_tag, request.to_tag>>
  ELSE IF <<request.call_id, request.to_tag, request.from_tag>> \in d.dialogs
  THEN <<request.call_id, request.to_tag, request.from_tag>>
  ELSE <<>>

\* receiveRequest from "Initial Request" on.
receiveInitialOrInDialog(d, request) ==
  LET method == request.method
  IN IF request.to_tag = ""
     THEN IF ~d.registered THEN request_reply(d, 410)
          ELSE CASE method = "INVITE" ->
                      IF ~d.webrtc THEN d
                      ELSE [d EXCEPT !.created = TRUE,
                                     !.sessions = @ \cup
                                        {<<request.call_id, request.from_tag>>}]
                 [] method = "BYE" -> request_reply(d, 481)
                 [] method = "CANCEL" ->
                      IF findSession(d, request) # <<>>
                      THEN [d EXCEPT !.toSession = findSession(d, request)]
                      ELSE d
                 [] method = "ACK" -> d
                 [] OTHER -> request_reply(d, 405)
     ELSE IF findDialog(d, request) # <<>>
          THEN [d EXCEPT !.toDialog = findDialog(d, request)]
          ELSE IF method = "NOTIFY"
          THEN IF findSession(d, request) # <<>>
               THEN [d EXCEPT !.toSession = findSession(d, request)]
               ELSE request_reply(d, 481)
          ELSE IF method # "ACK" THEN request_reply(d, 481) ELSE d

UA_receiveRequest(d0, request) ==
  LET method == request.method
      d == [d0 EXCEPT !.request = request, !.replies = <<>>,
                      !.nist = "none", !.newMessage = 0, !.created = FALSE,
                      !.toSession = <<>>, !.toDialog = <<>>]
  IN IF ~request.ruri_ours THEN request_reply(d, 404)
     ELSE IF request.duplicate THEN d
     ELSE LET d1 == IF method \notin {"INVITE", "ACK"}
                    THEN [d EXCEPT !.nist = "trying"] ELSE d
          IN IF method = "OPTIONS"
             THEN receiveInitialOrInDialog(request_reply(d1, 200), request)
             ELSE IF method = "MESSAGE"
             THEN IF ~d1.listener THEN request_reply(d1, 405)
                  ELSE receiveInitialOrInDialog(Message_init_incoming(d1),
                                                request)
             ELSE receiveInitialOrInDialog(d1, request)

\* The requests the transport hands up: ruri_ours says whether the
\* Request-URI's user is the configured one, duplicate whether
\* checkTransaction found the request's transaction.
InboundRequests ==
  [method : {"INVITE", "BYE", "CANCEL", "ACK", "OPTIONS", "MESSAGE",
             "NOTIFY", "INFO"},
   ruri_ours : BOOLEAN, duplicate : BOOLEAN,
   call_id : CallIds, from_tag : RequestTags,
   to_tag : RequestTags \cup {""}]

InitInbound ==
  /\ Idle3
  /\ sender = NoSender
  /\ ua = NewUa
  /\ \E listener \in BOOLEAN, webrtc \in BOOLEAN,
        dialogs \in SUBSET {<<"c1", "a", "b">>} :
       inbound = [NoInbound EXCEPT !.listener = listener, !.webrtc = webrtc,
                                   !.dialogs = dialogs]
  /\ msg = NewMessage(1)
  /\ reinvite = NewReinvite(1, "outgoing")
  /\ ackWait = NoAckWait
  /\ dtmf = NoDtmf
  /\ uri = NoUri
  /\ nameAddr = NoNameAddr

ReceiveRequest ==
  /\ \E request \in InboundRequests :
       inbound' = UA_receiveRequest(inbound, request)
  /\ UNCHANGED <<svars, mvars, rvars, sender, ua, msg, reinvite, ackWait, dtmf, uri, nameAddr>>

\* The registrator's registered flag changes.
RegisteredChanges ==
  /\ inbound' = [inbound EXCEPT !.registered = ~@]
  /\ UNCHANGED <<svars, mvars, rvars, sender, ua, msg, reinvite, ackWait, dtmf, uri, nameAddr>>

\* A session ends and leaves ua.sessions.
SessionCloses ==
  /\ \E session \in inbound.sessions :
       inbound' = [inbound EXCEPT !.sessions = @ \ {session}]
  /\ UNCHANGED <<svars, mvars, rvars, sender, ua, msg, reinvite, ackWait, dtmf, uri, nameAddr>>

NextInbound ==
  \/ ReceiveRequest
  \/ RegisteredChanges
  \/ SessionCloses

SpecInbound == InitInbound /\ [][NextInbound]_vars

(***************************************************************************)
(* An outgoing Message (src/lib/Message.js).  The request sender and the   *)
(* client transaction below it are not modelled here: they call the        *)
(* Message back any number of times and in any order.                      *)
(***************************************************************************)
\* How many callbacks of the request sender are followed.
MaxCallbacks == 4

\* close()
Message_close(m) ==
  [m EXCEPT !.closed = TRUE, !.applicant = FALSE]

\* succeeded / failed of definition 1; the emit of definition 2.
Message_outcome(m, event, cause) ==
  IF m.definition = 1
  THEN [Message_close(m) EXCEPT !.emitted = Append(@, <<event, cause>>)]
  ELSE [m EXCEPT !.emitted = Append(@, <<event, cause>>)]

\* onRequestTimeout and onTransportError
Message_onError(m, cause) ==
  IF m.closed THEN m ELSE Message_outcome(m, "failed", cause)

InitMessage ==
  /\ Idle3
  /\ sender = NoSender
  /\ ua = NewUa
  /\ inbound = NoInbound
  /\ \E definition \in {1, 2} : msg = NewMessage(definition)
  /\ reinvite = NewReinvite(1, "outgoing")
  /\ ackWait = NoAckWait
  /\ dtmf = NoDtmf
  /\ uri = NoUri
  /\ nameAddr = NoNameAddr

\* send(target, body)
MessageSend ==
  /\ msg.direction = "none"
  /\ msg' = [msg EXCEPT !.direction = "outgoing", !.applicant = TRUE]
  /\ UNCHANGED <<svars, mvars, rvars, sender, ua, inbound, reinvite, ackWait, dtmf, uri, nameAddr>>

MessageReceiveResponse ==
  /\ msg.direction = "outgoing"
  /\ msg.callbacks < MaxCallbacks
  /\ \E status_code \in {100, 200, 404} :
       msg' = [(LET m == msg
                IN IF m.closed THEN m
                   ELSE IF status_code \in 100..199 THEN m
                   ELSE IF status_code \in 200..299
                   THEN Message_outcome([m EXCEPT !.applicant = FALSE], "succeeded", "none")
                   ELSE Message_outcome([m EXCEPT !.applicant = FALSE], "failed",
                                        "sipErrorCause")) EXCEPT
                     !.callbacks = @ + 1,
                     !.finals = IF status_code >= 200 THEN @ + 1 ELSE @]
  /\ UNCHANGED <<svars, mvars, rvars, sender, ua, inbound, reinvite, ackWait, dtmf, uri, nameAddr>>

MessageRequestTimeout ==
  /\ msg.direction = "outgoing"
  /\ msg.callbacks < MaxCallbacks
  /\ msg' = [Message_onError(msg, "REQUEST_TIMEOUT") EXCEPT
                !.callbacks = @ + 1, !.finals = @ + 1]
  /\ UNCHANGED <<svars, mvars, rvars, sender, ua, inbound, reinvite, ackWait, dtmf, uri, nameAddr>>

MessageTransportError ==
  /\ msg.direction = "outgoing"
  /\ msg.callbacks < MaxCallbacks
  /\ msg' = [Message_onError(msg, "CONNECTION_ERROR") EXCEPT
                !.callbacks = @ + 1, !.finals = @ + 1]
  /\ UNCHANGED <<svars, mvars, rvars, sender, ua, inbound, reinvite, ackWait, dtmf, uri, nameAddr>>

\* The application, or the UA when it stops, closes the Message.
MessageClose ==
  /\ msg.direction = "outgoing"
  /\ ~msg.closed
  /\ msg' = [Message_close(msg) EXCEPT
                   !.userClosed = (msg.finals = 0)]
  /\ UNCHANGED <<svars, mvars, rvars, sender, ua, inbound, reinvite, ackWait, dtmf, uri, nameAddr>>

NextMessage ==
  \/ MessageSend
  \/ MessageReceiveResponse
  \/ MessageRequestTimeout
  \/ MessageTransportError
  \/ MessageClose

SpecMessage == InitMessage /\ [][NextMessage]_vars

(***************************************************************************)
(* A re-INVITE answered 491 (Session.RequestSender and                     *)
(* InDialogRequestSender in src/src/UA.js).                                *)
(***************************************************************************)
\* How many times the re-INVITE is followed onto the wire.
MaxReinvites == 3

\* request_sender.send()
Reinvite_send(r) ==
  [r EXCEPT !.sent = Append(@, r.cseq), !.pending = TRUE]

\* receiveResponse.  delivered is applicant.receiveResponse (definition 2:
\* onReceiveResponse); timed is the request with its CSeq raised and
\* window.setTimeout(callback, delay), whose delay counts milliseconds.
\* getReattemptTimeout / getReatempTimeout: the number its toFixed(2)
\* string denotes, in hundredths; percent stands for Math.random().  In
\* definition 2 `this` is the sender, never an OutgoingSession.
Reinvite_receiveResponse(r0, status_code, percent) ==
  LET r == [r0 EXCEPT !.pending = FALSE]
      delivered == [r EXCEPT !.delivered = Append(@, status_code)]
      timed == [r EXCEPT !.local_seqnum = @ + 1,
                         !.cseq = r.local_seqnum + 1,
                         !.timer = (IF r.definition = 1 /\ r.direction = "outgoing"
                                    THEN 210 + (percent * 190) \div 100
                                    ELSE (percent * 200) \div 100) * 10]
  IN IF status_code # 491 THEN delivered
     ELSE IF r.definition = 1
     THEN IF ~r.reattempt THEN timed ELSE delivered
     ELSE IF ~r.reattempt THEN timed ELSE r

\* The callback of the reattempt timer.
Reinvite_reattempt(r0) ==
  LET r == [r0 EXCEPT !.timer = -1]
  IN IF r.definition = 1
     THEN IF r.status # "terminated"
          THEN Reinvite_send([r EXCEPT !.reattempt = TRUE])
          ELSE r
     ELSE Reinvite_send(r)

InitReinvite ==
  /\ Idle3
  /\ sender = NoSender
  /\ ua = NewUa
  /\ inbound = NoInbound
  /\ msg = NewMessage(1)
  /\ \E definition \in {1, 2}, dir \in {"outgoing", "incoming"} :
       reinvite = NewReinvite(definition, dir)
  /\ ackWait = NoAckWait
  /\ dtmf = NoDtmf
  /\ uri = NoUri
  /\ nameAddr = NoNameAddr

ReinviteSend ==
  /\ reinvite.sent = <<>>
  /\ reinvite.status # "terminated"
  /\ reinvite' = Reinvite_send(reinvite)
  /\ UNCHANGED <<svars, mvars, rvars, sender, ua, inbound, msg, ackWait, dtmf, uri, nameAddr>>

ReinviteReceiveResponse ==
  /\ reinvite.pending
  /\ \E status_code \in {200, 491}, percent \in {0, 50, 100} :
       reinvite' = Reinvite_receiveResponse(reinvite, status_code, percent)
  /\ UNCHANGED <<svars, mvars, rvars, sender, ua, inbound, msg, ackWait, dtmf, uri, nameAddr>>

ReattemptTimerFired ==
  /\ reinvite.timer # -1
  /\ Len(reinvite.sent) < MaxReinvites
  /\ reinvite' = Reinvite_reattempt(reinvite)
  /\ UNCHANGED <<svars, mvars, rvars, sender, ua, inbound, msg, ackWait, dtmf, uri, nameAddr>>

\* The session ends while its re-INVITE is under way.
ReinviteSessionTerminated ==
  /\ reinvite.status # "terminated"
  /\ reinvite' = [reinvite EXCEPT !.status = "terminated"]
  /\ UNCHANGED <<svars, mvars, rvars, sender, ua, inbound, msg, ackWait, dtmf, uri, nameAddr>>

NextReinvite ==
  \/ ReinviteSend
  \/ ReinviteReceiveResponse
  \/ ReattemptTimerFired
  \/ ReinviteSessionTerminated

SpecReinvite == InitReinvite /\ [][NextReinvite]_vars

(***************************************************************************)
(* The 2xx of an incoming INVITE and the two timers that wait for its ACK, *)
(* with a clock.  Times are in milliseconds.  A timer is the time at which *)
(* it fires, -1 when it is not set; the clock does not pass a set timer.   *)
(***************************************************************************)
\* Timers.T1, Timers.T2 and Timers.TIMER_H.
T1 == 500
T2 == 4000
TIMER_H == 64 * T1

\* The clock stops after this many steps of T1.
MaxTicks == 70

Min(a, b) == IF a < b THEN a ELSE b

AckWaitSend(a, method) ==
  [a EXCEPT !.sent = Append(@, [method |-> method, at |-> a.now])]

\* invite2xxRetransmission of setInvite2xxTimer, were it to double the
\* timeout whatever it has reached.
invite2xxRetransmission_Unbounded(a) ==
  IF a.status # "waiting_for_ack" THEN [a EXCEPT !.invite2xxTimer = -1]
  ELSE LET timeout == a.timeout * 2
       IN [AckWaitSend(a, "200") EXCEPT !.timeout = timeout,
                                        !.invite2xxTimer = a.now + timeout]

\* invite2xxRetransmission of setInvite2xxTimer; timeout is the variable of
\* its closure.
invite2xxRetransmission(a) ==
  IF a.status # "waiting_for_ack" THEN [a EXCEPT !.invite2xxTimer = -1]
  ELSE LET timeout == IF a.timeout < T2 THEN Min(a.timeout * 2, T2)
                      ELSE a.timeout
       IN [AckWaitSend(a, "200") EXCEPT !.timeout = timeout,
                                        !.invite2xxTimer = a.now + timeout]

InitAckWait ==
  /\ Idle3
  /\ sender = NoSender
  /\ ua = NewUa
  /\ inbound = NoInbound
  /\ msg = NewMessage(1)
  /\ reinvite = NewReinvite(1, "outgoing")
  /\ ackWait = NoAckWait
  /\ dtmf = NoDtmf
  /\ uri = NoUri
  /\ nameAddr = NoNameAddr

\* T1 passes, no timer being due.
AckWaitTick ==
  /\ ackWait.now < MaxTicks * T1
  /\ ackWait.invite2xxTimer # ackWait.now
  /\ ackWait.ackTimer # ackWait.now
  /\ ackWait' = [ackWait EXCEPT !.now = @ + T1]
  /\ UNCHANGED <<svars, mvars, rvars, sender, ua, inbound, msg, reinvite, dtmf, uri, nameAddr>>

\* replySucceeded of answer(): the 200 has left.
AckWaitReplySucceeded ==
  /\ ackWait.status = "answered"
  /\ ackWait' = [AckWaitSend(ackWait, "200")
                  EXCEPT !.status = "waiting_for_ack",
                         !.timeout = T1,
                         !.invite2xxTimer = ackWait.now + T1,
                         !.ackTimer = ackWait.now + TIMER_H,
                         !.emitted = Append(@, "accepted")]
  /\ UNCHANGED <<svars, mvars, rvars, sender, ua, inbound, msg, reinvite, dtmf, uri, nameAddr>>

\* The timer of setInvite2xxTimer fires.
Invite2xxTimerFired ==
  /\ ackWait.invite2xxTimer = ackWait.now
  /\ ackWait' = invite2xxRetransmission(ackWait)
  /\ UNCHANGED <<svars, mvars, rvars, sender, ua, inbound, msg, reinvite, dtmf, uri, nameAddr>>

\* The callback of setACKTimer.
AckTimerFired ==
  /\ ackWait.ackTimer = ackWait.now
  /\ ackWait' = IF ackWait.status # "waiting_for_ack"
                THEN [ackWait EXCEPT !.ackTimer = -1]
                ELSE [AckWaitSend(ackWait, "BYE")
                      EXCEPT !.status = "terminated",
                             !.invite2xxTimer = -1,
                             !.ackTimer = -1,
                             !.emitted = Append(@, "ended:NO_ACK")]
  /\ UNCHANGED <<svars, mvars, rvars, sender, ua, inbound, msg, reinvite, dtmf, uri, nameAddr>>

\* receiveRequest for an ACK that carries no SDP the session waits for; a
\* second ACK may follow the first.
AckWaitReceiveAck ==
  /\ ackWait.status \in {"waiting_for_ack", "confirmed"}
  /\ ackWait.acks < 2
  /\ ackWait' = IF ackWait.status # "waiting_for_ack"
                THEN [ackWait EXCEPT !.acks = @ + 1]
                ELSE [ackWait EXCEPT !.status = "confirmed",
                                     !.ackTimer = -1,
                                     !.invite2xxTimer = -1,
                                     !.ackAt = ackWait.now,
                                     !.emitted = Append(@, "confirmed"),
                                     !.acks = @ + 1]
  /\ UNCHANGED <<svars, mvars, rvars, sender, ua, inbound, msg, reinvite, dtmf, uri, nameAddr>>

NextAckWait ==
  \/ AckWaitTick
  \/ AckWaitReplySucceeded
  \/ Invite2xxTimerFired
  \/ AckTimerFired
  \/ AckWaitReceiveAck

SpecAckWait == InitAckWait /\ [][NextAckWait]_vars

(***************************************************************************)
(* RTCSession.sendDTMF.  this._tones is a sequence of tones, empty when it *)
(* is null; every tone carries the number it got when it was queued.  Each *)
(* call that finds no tones queued starts a sender, _sendDTMF with its own *)
(* position and its own timer.  inflight are the INFO requests that have   *)
(* no final response yet.                                                  *)
(***************************************************************************)
\* The calls of sendDTMF that are made.
MaxDtmfCalls == 3

\* What the application passes as tones.
ToneStrings == {<<"1">>, <<"1", "2">>, <<",", "3">>}

\* The tones of a call, numbered from first on.
Numbered(tones, first) ==
  [i \in 1..Len(tones) |-> [tone |-> tones[i], id |-> first + i - 1]]

\* _sendDTMF, run by sender c: at the call and when its timer fires.
sendDTMF_next(d, c) ==
  LET position == d.senders[c].position
  IN IF d.status = "terminated" \/ d.tones = <<>> \/ position >= Len(d.tones)
     THEN [d EXCEPT !.tones = <<>>, !.senders[c].timer = FALSE]
     ELSE LET tone == d.tones[position + 1]
              d1 == [d EXCEPT !.senders[c].position = position + 1,
                              !.senders[c].timer = TRUE]
          IN IF tone.tone = "," THEN d1
             ELSE [d1 EXCEPT !.sent = Append(@, tone),
                             !.inflight = @ \cup {tone.id}]

sendDTMF(d, tones) ==
  IF d.status \notin {"confirmed", "waiting_for_ack"} THEN d
  ELSE LET queued == Numbered(tones, d.queued + 1)
           d1 == [d EXCEPT !.queued = @ + Len(tones), !.calls = @ + 1]
       IN IF d.tones # <<>>
          THEN [d1 EXCEPT !.tones = @ \o queued]
          ELSE sendDTMF_next(
                 [d1 EXCEPT !.tones = queued,
                            !.senders = Append(@, [position |-> 0,
                                                   timer |-> FALSE])],
                 Len(d.senders) + 1)

InitDtmf ==
  /\ Idle3
  /\ sender = NoSender
  /\ ua = NewUa
  /\ inbound = NoInbound
  /\ msg = NewMessage(1)
  /\ reinvite = NewReinvite(1, "outgoing")
  /\ ackWait = NoAckWait
  /\ dtmf = NoDtmf
  /\ uri = NoUri
  /\ nameAddr = NoNameAddr

UserSendDTMF ==
  /\ dtmf.calls < MaxDtmfCalls
  /\ \E tones \in ToneStrings : dtmf' = sendDTMF(dtmf, tones)
  /\ UNCHANGED <<svars, mvars, rvars, sender, ua, inbound, msg, reinvite,
               ackWait, uri, nameAddr>>

\* The timer that sender c set fires.
DtmfTimerFired ==
  /\ \E c \in 1..Len(dtmf.senders) :
       /\ dtmf.senders[c].timer
       /\ dtmf' = sendDTMF_next(dtmf, c)
  /\ UNCHANGED <<svars, mvars, rvars, sender, ua, inbound, msg, reinvite,
               ackWait, uri, nameAddr>>

\* onFailed of the eventHandlers given to dtmf.send: the INFO of a tone
\* failed.  dropped are the tones that were waiting behind it unsent.
DtmfFailed ==
  /\ \E id \in dtmf.inflight :
       dtmf' = [dtmf EXCEPT
                  !.tones = <<>>,
                  !.inflight = @ \ {id},
                  !.dropped =
                     IF \E i \in 1..Len(dtmf.tones) : dtmf.tones[i].id = id
                     THEN @ \cup { dtmf.tones[i].id : i \in
                                     { j \in 1..Len(dtmf.tones) :
                                         /\ dtmf.tones[j].id > id
                                         /\ \A k \in 1..Len(dtmf.sent) :
                                              dtmf.sent[k] # dtmf.tones[j] } }
                     ELSE @]
  /\ UNCHANGED <<svars, mvars, rvars, sender, ua, inbound, msg, reinvite,
               ackWait, uri, nameAddr>>

\* The INFO of a tone got its 2xx.
DtmfSucceeded ==
  /\ \E id \in dtmf.inflight : dtmf' = [dtmf EXCEPT !.inflight = @ \ {id}]
  /\ UNCHANGED <<svars, mvars, rvars, sender, ua, inbound, msg, reinvite,
               ackWait, uri, nameAddr>>

\* The session ends.
DtmfSessionTerminated ==
  /\ dtmf.status # "terminated"
  /\ dtmf' = [dtmf EXCEPT !.status = "terminated"]
  /\ UNCHANGED <<svars, mvars, rvars, sender, ua, inbound, msg, reinvite,
               ackWait, uri, nameAddr>>

NextDtmf ==
  \/ UserSendDTMF
  \/ DtmfTimerFired
  \/ DtmfFailed
  \/ DtmfSucceeded
  \/ DtmfSessionTerminated

SpecDtmf == InitDtmf /\ [][NextDtmf]_vars

(***************************************************************************)
(* URI.  A string is a sequence of characters.  definition 1 is the URI of *)
(* lib/URI.js, definition 2 the JsSIP.URI of src/URI.js.  The parser is    *)
(* the SIP_URI rule of the Grammar, which the sources do not hold; the     *)
(* test of the parser says what it yields.                                 *)
(***************************************************************************)
\* String.prototype.toLowerCase on the characters that are used.
LowerOf(ch) ==
  CASE ch = "S" -> "s" [] ch = "I" -> "i" [] ch = "P" -> "p"
    [] ch = "A" -> "a" [] ch = "X" -> "x" [] OTHER -> ch

toLowerCase(str) == [i \in 1..Len(str) |-> LowerOf(str[i])]

\* Utils.escapeUser / encodeURIComponent: a space becomes %20, the letters
\* stay.
RECURSIVE escapeUser(_)
escapeUser(user) ==
  IF user = <<>> THEN <<>>
  ELSE (IF Head(user) = " " THEN <<"%", "2", "0">> ELSE <<Head(user)>>)
       \o escapeUser(Tail(user))

\* The decoding of the escaped characters by the parser.
RECURSIVE unescape(_)
unescape(str) ==
  IF str = <<>> THEN <<>>
  ELSE IF Len(str) >= 3 /\ SubSeq(str, 1, 3) = <<"%", "2", "0">>
       THEN <<" ">> \o unescape(SubSeq(str, 4, Len(str)))
       ELSE <<Head(str)>> \o unescape(Tail(str))

\* The place of the first ch in str, 0 when there is none.
IndexOf(str, ch) ==
  IF \E i \in 1..Len(str) : str[i] = ch
  THEN CHOOSE i \in 1..Len(str) : str[i] = ch /\ \A j \in 1..(i - 1) : str[j] # ch
  ELSE 0

\* The ports that are used, as they are printed; NoPort is null.
NoPort == 0
PortDigits == <<"1", "2", "3", "4", "5">>

\* The constructor: the values become the variables of the closure as they
\* are, the scheme of definition 1 being sip when none is given.
URI(definition, scheme, user, host, port) ==
  [definition |-> definition,
   scheme |-> IF definition = 1 /\ scheme = <<>> THEN <<"s", "i", "p">>
              ELSE scheme,
   user |-> user, host |-> host, port |-> port]

\* toAor, without the port.
URI_toAor(u) ==
  (IF u.scheme = <<>> THEN <<"s", "i", "p">> ELSE u.scheme) \o <<":">>
  \o (IF u.user # <<>> THEN escapeUser(u.user) \o <<"@">> ELSE <<>>)
  \o u.host

\* toString of a URI without parameters and headers.
URI_toString(u) ==
  URI_toAor(u)
  \o (IF u.port # NoPort THEN <<":", PortDigits[u.port]>> ELSE <<>>)

\* Grammar.parse(data, 'SIP_URI') of scheme:[user@]host[:port].
URI_parse(definition, data) ==
  LET colon == IndexOf(data, ":")
      rest == SubSeq(data, colon + 1, Len(data))
      at == IndexOf(rest, "@")
      hostport == SubSeq(rest, at + 1, Len(rest))
      colon2 == IndexOf(hostport, ":")
      host == IF colon2 = 0 THEN hostport ELSE SubSeq(hostport, 1, colon2 - 1)
  IN URI(definition,
         toLowerCase(SubSeq(data, 1, colon - 1)),
         IF at = 0 THEN <<>> ELSE unescape(SubSeq(rest, 1, at - 1)),
         toLowerCase(host),
         IF colon2 = 0 THEN NoPort
         ELSE CHOOSE p \in 1..Len(PortDigits) :
                PortDigits[p] = hostport[colon2 + 1])

\* What the application passes.
Schemes == {<<>>, <<"s", "i", "p">>, <<"S", "I", "P">>, <<"s", "i", "p", "s">>}
Users == {<<>>, <<"a">>, <<"A", " ">>}
Hosts == {<<"a">>, <<"A">>, <<"a", ".", "x">>, <<"A", ".", "X">>}
Ports == {NoPort, 5}

InitUri ==
  /\ Idle3
  /\ sender = NoSender
  /\ ua = NewUa
  /\ inbound = NoInbound
  /\ msg = NewMessage(1)
  /\ reinvite = NewReinvite(1, "outgoing")
  /\ ackWait = NoAckWait
  /\ dtmf = NoDtmf
  /\ \E definition \in {1, 2}, scheme \in Schemes, user \in Users,
        host \in Hosts, port \in Ports :
       uri = [object |-> URI(definition, scheme, user, host, port),
              last |-> "constructor"]
  /\ nameAddr = NoNameAddr

\* The setter of scheme.
UriSetScheme ==
  /\ \E value \in Schemes \ {<<>>} :
       uri' = [object |-> [uri.object EXCEPT !.scheme = toLowerCase(value)],
               last |-> "scheme"]
  /\ UNCHANGED <<svars, mvars, rvars, sender, ua, inbound, msg, reinvite,
               ackWait, dtmf, nameAddr>>

\* The setter of user.
UriSetUser ==
  /\ \E value \in Users :
       uri' = [object |-> [uri.object EXCEPT !.user = value],
               last |-> "user"]
  /\ UNCHANGED <<svars, mvars, rvars, sender, ua, inbound, msg, reinvite,
               ackWait, dtmf, nameAddr>>

\* The setter of host.
UriSetHost ==
  /\ \E value \in Hosts :
       uri' = [object |-> [uri.object EXCEPT !.host = toLowerCase(value)],
               last |-> "host"]
  /\ UNCHANGED <<svars, mvars, rvars, sender, ua, inbound, msg, reinvite,
               ackWait, dtmf, nameAddr>>

\* A URI is parsed from what another printed or from what a peer wrote.
UriParse ==
  /\ \E scheme \in Schemes \ {<<>>}, user \in Users, host \in Hosts,
        port \in Ports :
       uri' = [object |->
                 URI_parse(uri.object.definition,
                           URI_toString(URI(uri.object.definition, scheme,
                                            user, host, port))),
               last |-> "parser"]
  /\ UNCHANGED <<svars, mvars, rvars, sender, ua, inbound, msg, reinvite,
               ackWait, dtmf, nameAddr>>

NextUri ==
  \/ UriSetScheme
  \/ UriSetUser
  \/ UriSetHost
  \/ UriParse

SpecUri == InitUri /\ [][NextUri]_vars

(***************************************************************************)
(* NameAddrHeader.  Its URI is a URI object with the names of the          *)
(* parameters of the URI; the parameters of the header are names as well.  *)
(* A name is one character.  The parser is the Contact rule of the         *)
(* Grammar, known from the test of the parser: inside angle brackets the   *)
(* parameters are the URI's, behind them and behind a URI that has no      *)
(* brackets they are the header's.                                         *)
(***************************************************************************)
\* The parameters as they are printed: ;name for each.
RECURSIVE PrintParams(_)
PrintParams(names) ==
  IF names = <<>> THEN <<>>
  ELSE <<";", Head(names)>> \o PrintParams(Tail(names))

\* The keys of the object that setParam fills with these names in turn.
RECURSIVE Keys(_)
Keys(names) ==
  IF names = <<>> THEN <<>>
  ELSE LET before == Keys(SubSeq(names, 1, Len(names) - 1))
           name == LowerOf(names[Len(names)])
       IN IF \E i \in 1..Len(before) : before[i] = name THEN before
          ELSE Append(before, name)

\* The names in a string of ;name.
RECURSIVE ParseParams(_)
ParseParams(str) ==
  IF Len(str) < 2 THEN <<>>
  ELSE <<str[2]>> \o ParseParams(SubSeq(str, 3, Len(str)))

NameAddrHeader(header_uri, display_name, parameters) ==
  [uri |-> header_uri, display_name |-> display_name,
   parameters |-> Keys(parameters)]

\* toString; ' stands for the double quote.
NameAddrHeader_toString(h) ==
  LET printed == URI_toString(h.uri.object) \o PrintParams(h.uri.parameters)
  IN (IF h.display_name # <<>> THEN <<"'">> \o h.display_name \o <<"'", " ">>
      ELSE <<>>)
     \o (IF h.display_name # <<>> THEN <<"<">> \o printed \o <<">">>
         ELSE printed)
     \o PrintParams(h.parameters)

\* Grammar.parse(data, 'Contact') of one name-addr or addr-spec.
NameAddrHeader_parse(data) ==
  LET lt == IndexOf(data, "<")
      gt == IndexOf(data, ">")
      quoted == IF data # <<>> /\ data[1] = "'"
                THEN SubSeq(data, 2, IndexOf(Tail(data), "'"))
                ELSE <<>>
      inner == IF lt = 0 THEN data ELSE SubSeq(data, lt + 1, gt - 1)
      semi == IndexOf(inner, ";")
      addr == IF semi = 0 THEN inner ELSE SubSeq(inner, 1, semi - 1)
      behind == IF semi = 0 THEN <<>> ELSE SubSeq(inner, semi, Len(inner))
  IN NameAddrHeader(
       [object |-> URI_parse(2, addr),
        parameters |-> IF lt = 0 THEN <<>> ELSE Keys(ParseParams(behind))],
       quoted,
       IF lt = 0 THEN ParseParams(behind)
       ELSE ParseParams(SubSeq(data, gt + 1, Len(data))))

\* What the application passes.
DisplayNames == {<<>>, <<"D">>}
ParamNames == {"t", "h", "G"}
HeaderUris ==
  { [object |-> URI(2, <<"s", "i", "p">>, user, host, NoPort),
     parameters |-> parameters] :
      user \in {<<>>, <<"a">>}, host \in {<<"a">>, <<"a", ".", "x">>},
      parameters \in {<<>>, <<"t">>} }

InitNameAddr ==
  /\ Idle3
  /\ sender = NoSender
  /\ ua = NewUa
  /\ inbound = NoInbound
  /\ msg = NewMessage(1)
  /\ reinvite = NewReinvite(1, "outgoing")
  /\ ackWait = NoAckWait
  /\ dtmf = NoDtmf
  /\ uri = NoUri
  /\ \E header_uri \in HeaderUris, display_name \in DisplayNames,
        parameters \in {<<>>, <<"h">>} :
       nameAddr = [header |-> NameAddrHeader(header_uri, display_name,
                                             parameters),
                   last |-> "constructor"]

\* The setter of display_name.
NameAddrSetDisplayName ==
  /\ \E value \in DisplayNames :
       nameAddr' = [header |-> [nameAddr.header EXCEPT !.display_name = value],
                    last |-> "display_name"]
  /\ UNCHANGED <<svars, mvars, rvars, sender, ua, inbound, msg, reinvite,
               ackWait, dtmf, uri>>

\* setParam with a null value, of the header and of its URI.
NameAddrSetParam ==
  /\ \E key \in ParamNames, ofUri \in BOOLEAN :
       nameAddr' =
         [header |-> IF ofUri
                     THEN [nameAddr.header EXCEPT
                             !.uri.parameters = Keys(Append(@, key))]
                     ELSE [nameAddr.header EXCEPT
                             !.parameters = Keys(Append(@, key))],
          last |-> "setParam"]
  /\ UNCHANGED <<svars, mvars, rvars, sender, ua, inbound, msg, reinvite,
               ackWait, dtmf, uri>>

\* clearParams of the header and of its URI.
NameAddrClearParams ==
  /\ nameAddr' = [header |-> [nameAddr.header EXCEPT !.parameters = <<>>,
                                                     !.uri.parameters = <<>>],
                  last |-> "clearParams"]
  /\ UNCHANGED <<svars, mvars, rvars, sender, ua, inbound, msg, reinvite,
               ackWait, dtmf, uri>>

\* The header is parsed from what it printed.
NameAddrParse ==
  /\ nameAddr' =
       [header |-> NameAddrHeader_parse(NameAddrHeader_toString(nameAddr.header)),
        last |-> "parser"]
  /\ UNCHANGED <<svars, mvars, rvars, sender, ua, inbound, msg, reinvite,
               ackWait, dtmf, uri>>

NextNameAddr ==
  \/ NameAddrSetDisplayName
  \/ NameAddrSetParam
  \/ NameAddrClearParams
  \/ NameAddrParse

SpecNameAddr == InitNameAddr /\ [][NextNameAddr]_vars

(***************************************************************************)
(* Properties.                                                             *)
(***************************************************************************)

C2_CancelOnceProvisionalKnown ==
  /\ sent["CANCEL"] <= 1
  /\ \A options \in TerminateOptions :
       direction = "outgoing" /\ status \in {"invite_sent", "1xx_received"}
       => LET r == terminate(World, options)
          IN r.out = IF ict = "proceeding" THEN <<"CANCEL">> ELSE <<>>
  /\ \A response \in InviteResponses :
       /\ direction = "outgoing" /\ isCanceled /\ ict = "calling"
       /\ response.status_code < 200
       => receiveInviteResponse(IctReceive(World, response), response).out
            = <<"CANCEL">>

\* C3, as stated: a 2xx that arrives after the user's cancel and before any
\* CANCEL was sent is answered with an ACK and then a BYE on the dialog it
\* establishes; nothing is emitted and the session stays Terminated.
C3_LateAcceptIsAckedAndEnded ==
  \A response \in InviteResponses :
    /\ direction = "outgoing" /\ isCanceled
    /\ ict \in {"calling", "proceeding"}
    /\ response.status_code \in 200..299 /\ response.contact
    => LET r == receiveInviteResponse(IctReceive(World, response), response)
       IN /\ r.out = <<"ACK", "BYE">>
          /\ r.emitted = <<>>
          /\ r.status = "terminated"
          /\ r.dialog # NoDialog /\ r.dialog.tag = response.to_tag

\* C4, as stated: terminate() on a Terminated session raises no error, sends
\* nothing, emits nothing and leaves the state unchanged.
C4_TerminateOnTerminatedIsSilent ==
  \A options \in TerminateOptions :
    status = "terminated"
    => LET r == terminate(World, options)
       IN /\ r.raised = "none"
          /\ r.out = <<>> /\ r.emitted = <<>>
          /\ [r EXCEPT !.raised = "none"] = World

\* C4, amended: terminate() on a Terminated session throws
\* InvalidStateError; it sends nothing, emits nothing and leaves the state
\* unchanged.
C4_TerminateOnTerminatedThrows ==
  \A options \in TerminateOptions :
    status = "terminated"
    => terminate(World, options)
         = [World EXCEPT !.raised = "InvalidStateError"]

\* A session that terminate() has ended, where a second terminate() throws.
C4_Witness ==
  /\ status = "terminated"
  /\ hist.terminateCalled
  /\ sent["BYE"] = 1
  /\ \E options \in TerminateOptions : Threw(terminate(World, options))

\* C5, as stated: terminate() on an incoming session that waits for the ACK,
\* its INVITE server transaction not yet Terminated, sends no BYE at that
\* moment; the one BYE leaves when the ACK arrives or when the server
\* transaction reaches Terminated, whichever happens first.
C5_DeferredByeIsSent ==
  /\ \A options \in TerminateOptions :
       /\ status = "waiting_for_ack" /\ direction = "incoming"
       /\ ist # "terminated"
       => terminate(World, options).out = <<>>
  /\ postAck /\ dialog # NoDialog /\ dialog.inUA
     => /\ \A request \in InDialogRequests :
             request.method = "ACK"
             => DialogReceiveRequest(World, request).out = <<"BYE">>
        /\ ist # "terminated"
           => istStateChanged([World EXCEPT !.ist = "terminated"]).out
                = <<"BYE">>
  /\ postAck => sent["BYE"] <= 1

\* C6: on an outgoing session every 2xx that matches the session's confirmed
\* dialog, a retransmission, makes the session send an ACK again and emit
\* nothing; the accepted event is emitted at most once in all.
C6_RetransmittedAcceptIsAcked ==
  /\ evCount["accepted"] <= 1
  /\ \A response \in InviteResponses :
       /\ direction = "outgoing" /\ dialog # NoDialog
       /\ response.status_code \in 200..299
       /\ response.to_tag = dialog.tag
       => LET r == receiveInviteResponse(IctReceive(World, response),
                                         response)
          IN r.out = <<"ACK">> /\ r.emitted = <<>>

\* An outgoing session, accepted and confirmed, for which a retransmission
\* of the 2xx is answered with an ACK.
C6_Witness ==
  /\ direction = "outgoing" /\ status = "confirmed" /\ is_confirmed
  /\ evCount["accepted"] = 1
  /\ ict = "accepted"
  /\ \E response \in InviteResponses :
       /\ response.status_code = 200 /\ response.to_tag = dialog.tag
       /\ receiveInviteResponse(IctReceive(World, response), response).out
            = <<"ACK">>

\* C7: on an incoming session whose offer is late (the INVITE had no body)
\* the ACK with an SDP makes the status Confirmed, that SDP being applied;
\* the ACK without a body makes the session send a BYE and emit
\* ended(local, MISSING_SDP) and nothing else, and leaves it Terminated and
\* not confirmed.  Such a session is Confirmed before its confirmed event
\* only while the SDP of an ACK is being applied.
C7_LateOfferNeedsSdpInAck ==
  /\ direction = "incoming" /\ late_sdp /\ status = "confirmed"
     /\ ~is_confirmed
     => pcAck.stage = "setRemote"
  /\ \A request \in InDialogRequests :
       /\ direction = "incoming" /\ late_sdp /\ ~is_confirmed
       /\ status = "waiting_for_ack" /\ dialog # NoDialog
       /\ request.method = "ACK"
       => LET r == DialogReceiveRequest(World, request)
          IN IF request.body
             THEN /\ r.status = "confirmed"
                  /\ r.pcAck.stage = "setRemote"
                  /\ r.out = <<>> /\ r.emitted = <<>>
             ELSE /\ r.status = "terminated"
                  /\ r.out = <<"BYE">>
                  /\ r.emitted = <<Ev("ended", "local", "MISSING_SDP")>>
                  /\ ~r.is_confirmed

\* An answered incoming late-offer session that waits for its ACK, where
\* the ACK without a body ends the session with MISSING_SDP.
C7_Witness ==
  /\ direction = "incoming" /\ late_sdp /\ ~is_confirmed
  /\ status = "waiting_for_ack" /\ dialog # NoDialog
  /\ evCount["accepted"] = 1
  /\ \E request \in InDialogRequests :
       /\ request.method = "ACK" /\ ~request.body
       /\ DialogReceiveRequest(World, request).emitted
            = <<Ev("ended", "local", "MISSING_SDP")>>

\* C8, as stated: at most one re-INVITE or UPDATE of the session is
\* outstanding at a time; hold(), unhold() and renegotiate() return false
\* and send nothing unless rtcReady holds, the dialog exists and neither
\* uac_pending_reply nor uas_pending_reply is set; the refresh UPDATE of the
\* session timer is not sent while an INVITE or UPDATE awaits its final
\* response.
C8_OneLocalReofferAtATime ==
  /\ Cardinality({k \in ReofferKinds : reqOut[k] = "pending"}) <= 1
  /\ \A useUpdate \in BOOLEAN :
       ~isReadyToReOffer(World)
       => \A r \in {hold(World, useUpdate), unhold(World, useUpdate),
                    renegotiate(World, useUpdate)} :
            r.ret = "false" /\ r.out = <<>>
  /\ /\ sessionTimers.timer = "refresh" /\ dialog # NoDialog
     /\ \/ \E k \in ReofferKinds : reqOut[k] = "pending"
        \/ dialog.uas_pending_reply
     => sessionTimerFired(World).out = <<>>

\* C9, as stated, for the audio and video sections of the offer: under a
\* local hold only, sendrecv becomes sendonly and recvonly becomes inactive;
\* under a remote hold only, sendrecv becomes recvonly and sendonly becomes
\* inactive; with neither hold the offer is returned unchanged.
C9_MangleOfferMapsDirections ==
  mOut.done
  => /\ Len(mOut.sdp) = Len(mSdp)
     /\ ~mHold.localHold /\ ~mHold.remoteHold => mOut.sdp = mSdp
     /\ \A i \in 1..Len(mSdp) :
          mSdp[i].type \in holdMediaTypes
          => /\ mHold.localHold /\ ~mHold.remoteHold
                => /\ mSdp[i].direction = "sendrecv"
                      => mOut.sdp[i].direction = "sendonly"
                   /\ mSdp[i].direction = "recvonly"
                      => mOut.sdp[i].direction = "inactive"
             /\ mHold.remoteHold /\ ~mHold.localHold
                => /\ mSdp[i].direction = "sendrecv"
                      => mOut.sdp[i].direction = "recvonly"
                   /\ mSdp[i].direction = "sendonly"
                      => mOut.sdp[i].direction = "inactive"

\* C10, as stated: with both hold flags set every media section of the
\* mangled offer is inactive, whatever its type and its direction.
C10_BothHoldAllInactive ==
  mOut.done /\ mHold.localHold /\ mHold.remoteHold
  => \A i \in 1..Len(mOut.sdp) : mOut.sdp[i].direction = "inactive"

\* C10, amended: with both hold flags set every audio and every video
\* section of the mangled offer is inactive, whatever its direction was;
\* the sections of another type are left as they were.
C10_BothHoldAudioVideoInactive ==
  mOut.done /\ mHold.localHold /\ mHold.remoteHold
  => /\ Len(mOut.sdp) = Len(mSdp)
     /\ \A i \in 1..Len(mSdp) :
          IF mSdp[i].type \in holdMediaTypes
          THEN mOut.sdp[i] = [mSdp[i] EXCEPT !.direction = "inactive"]
          ELSE mOut.sdp[i] = mSdp[i]

\* An offer with a sendrecv audio section and a section of another type,
\* mangled with both hold flags set.
C10_Witness ==
  /\ mOut.done /\ mHold.localHold /\ mHold.remoteHold
  /\ \E i, j \in 1..Len(mSdp) :
       /\ mSdp[i].type = "audio" /\ mSdp[i].direction = "sendrecv"
       /\ mOut.sdp[i].direction = "inactive"
       /\ mSdp[j].type \notin holdMediaTypes

C12_RefresherOnlyWhenNamed ==
  \A se \in SessionExpires \ {"absent"} :
    sessionTimers.enabled
    => /\ \A request \in InDialogRequests :
            /\ status = "confirmed" /\ dialog # NoDialog
            /\ request.method = "UPDATE" /\ ~request.body /\ request.se = se
            => LET r == DialogReceiveRequest(World, request)
               IN r.out = <<"r200in">>
                  => r.sessionTimers.refresher = (se = "uas")
       /\ pc2xx.stage = "setRemote"
          => remote2xxSucceeded(World, se).sessionTimers.refresher
               = (se = "uac")

\* C12, amended: with session timers enabled, after a request or a response
\* has been processed the session is the refresher unless its
\* Session-Expires header names the other side (refresher=uac in a request
\* it receives, refresher=uas in a response it receives): it takes the role
\* also when the header names no refresher, is absent or is below the
\* minimum.
C12_RefresherUnlessPeerNamed ==
  \A se \in SessionExpires :
    sessionTimers.enabled
    => /\ \A request \in InDialogRequests :
            /\ status = "confirmed" /\ dialog # NoDialog
            /\ request.method = "UPDATE" /\ ~request.body /\ request.se = se
            => LET r == DialogReceiveRequest(World, request)
               IN r.out = <<"r200in">>
                  => r.sessionTimers.refresher = (se # "uac")
       /\ pc2xx.stage = "setRemote"
          => remote2xxSucceeded(World, se).sessionTimers.refresher
               = (se # "uas")

\* The 2xx of the INVITE is being applied on a session with session timers;
\* a Session-Expires that names no refresher makes the session the refresher.
C12_Witness ==
  /\ sessionTimers.enabled /\ ~sessionTimers.refresher
  /\ pc2xx.stage = "setRemote" /\ connection = "open"
  /\ LET r == remote2xxSucceeded(World, "unassigned")
     IN r.sessionTimers.refresher /\ r.sessionTimers.timer = "refresh"

\* C13, as stated: a request timeout or a transport error reported to a
\* session that is not Terminated terminates it and emits one event that
\* carries the cause REQUEST_TIMEOUT, respectively CONNECTION_ERROR: ended
\* when the status was Confirmed, failed when the session was not yet
\* established (either of them while it waits for the ACK).
C13_TimeoutAndTransportErrorCauses ==
  \A target \in Targets :
    ClientTransactionPending(target) /\ status # "terminated"
    => LET name == IF status = "confirmed" THEN {"ended"}
                   ELSE IF status = "waiting_for_ack"
                        THEN {"ended", "failed"}
                        ELSE {"failed"}
           t == onRequestTimeout(ClientTransactionEnds(World, target))
           e == onTransportError(ClientTransactionEnds(World, target))
       IN /\ target = "initial" => ict = "calling"
          => /\ t.status = "terminated" /\ Len(t.emitted) = 1
             /\ t.emitted[1].name \in name
             /\ t.emitted[1].cause = "REQUEST_TIMEOUT"
          /\ e.status = "terminated" /\ Len(e.emitted) = 1
          /\ e.emitted[1].name \in name
          /\ e.emitted[1].cause = "CONNECTION_ERROR"

\* C14, as stated: while the status is Terminated no timer of the session is
\* armed, the session has neither its dialog nor an early dialog, and it is
\* not in the sessions of the UA.
C14_TerminatedHoldsNothing ==
  status = "terminated"
  => /\ timers = NoTimers
     /\ sessionTimers.timer = "none"
     /\ dialog = NoDialog
     /\ earlyDialogs = {}
     /\ ~inSessions

\* C15, as stated, for an outgoing session: connect() emits newRTCSession
\* first and connecting comes before the INVITE; progress is emitted only
\* for a 1xx other than 100 and only before the 2xx; the 2xx, once applied,
\* gives accepted, then the ACK, then confirmed; confirmed is never emitted
\* without an earlier accepted.
C15_OutgoingEventOrder ==
  /\ status = "null" /\ direction = "none"
     => \A media \in {"gum", "none"} :
          connect(World, media).trace
            = IF media = "gum" THEN <<"newRTCSession">>
              ELSE <<"newRTCSession", "connecting">>
  /\ pcInitial.stage = "gum" /\ status # "terminated"
     => initialUserMediaSucceeded(World).trace = <<"connecting">>
  /\ pcInitial.stage = "offer"
     => initialRtcSucceeded(World).trace \in {<<>>, <<"INVITE">>}
  /\ \A response \in InviteResponses :
       direction = "outgoing" /\ ict \in {"calling", "proceeding", "accepted"}
       => LET r == receiveInviteResponse(IctReceive(World, response),
                                         response)
              names == {r.emitted[i].name : i \in 1..Len(r.emitted)}
          IN /\ names \cap {"accepted", "confirmed"} = {}
             /\ "progress" \in names
                => /\ response.status_code \in 101..199
                   /\ evCount["accepted"] = 0 /\ ~is_confirmed
                   /\ pc2xx = Idle
  /\ pc2xx.stage = "setRemote" /\ connection = "open"
     => \A se \in SessionExpires :
          remote2xxSucceeded(World, se).trace
            = <<"accepted", "ACK", "confirmed">>
  /\ direction = "outgoing" /\ is_confirmed => evCount["accepted"] >= 1

\* C16: a CANCEL received while the incoming session is waiting for the
\* answer or answered is replied with a 487 to the INVITE, makes the session
\* Canceled and emits failed(remote, CANCELED), and no 200 to the INVITE is
\* sent and no accepted emitted afterwards; a CANCEL in any other status
\* changes nothing and sends nothing.
C16_CancelEndsUnansweredInvite ==
  /\ LET r == receiveCancel(World)
     IN IF status \in {"waiting_for_answer", "answered"}
        THEN /\ cancelReplied(World).status = "canceled"
             /\ r.out = <<"r487">>
             /\ r.emitted = <<Ev("failed", "remote", "CANCELED")>>
             /\ r.ist = "completed"
             /\ r.status = "terminated"
        ELSE r = World
  /\ hist.canceled
     => /\ hist.afterCancel \cap {"r200", "r200rtx", "accepted"} = {}
        /\ status = "terminated"

\* The CANCEL arrived after answer() and before the 200 was sent, and the
\* pending answer has been settled since.
C16_Witness ==
  /\ hist.canceled /\ direction = "incoming"
  /\ connection = "closed" /\ pcAnswer = Idle
  /\ ist = "completed" /\ evCount["accepted"] = 0

\* C17, as stated: a 2xx to the REGISTER that carries a Contact arms the
\* refresh timer max(0, e - 3) seconds ahead, e being the expires parameter
\* of the Contact with the UA's URI, else the Expires header of the
\* response, else the requested expires.
C17_LifetimeFromContactThenHeader ==
  \A t \in nict : \A response \in RegisterResponses(t.cseq) :
    /\ applicant = "register" /\ t.cseq = cseq
    /\ response.status_code = 200 /\ Len(response.contacts) > 0
    => LET r == receiveRegisterResponse(RegWorld, response)
           i == OurContact(response)
           e == IF i # 0 /\ response.contacts[i].expires # NoValue
                THEN response.contacts[i].expires
                ELSE IF response.expires # NoValue THEN response.expires
                ELSE expires
       IN /\ r.registrationTimer = response.cseq
          /\ [id |-> response.cseq,
              delay |-> 1000 * (IF e < 3 THEN 0 ELSE e - 3)] \in r.armed

\* C18, as stated: a 423 with Min-Expires m sets the requested expires to m,
\* and the REGISTER that the registrator sends next carries expires=m.
C18_RetryCarriesMinExpires ==
  \A t \in nict : \A response \in RegisterResponses(t.cseq) :
    /\ applicant = "register" /\ t.cseq = cseq
    /\ response.status_code = 423 /\ response.min_expires # NoValue
    => LET r == receiveRegisterResponse(RegWorld, response)
           next == register([r EXCEPT !.armed = {}])
       IN /\ r.expires = response.min_expires
          /\ Len(next.out) = 1
          /\ next.out[1].expires = response.min_expires

\* C19, as stated: at most one REGISTER of the registrator is awaiting its
\* final response.
C19_OneRegisterInFlight ==
  Cardinality(nict) <= 1

\* C20, as stated: once the user has called unregister() and the responses
\* and the timers that were outstanding then have been processed, the
\* registrator is not registered and has no timer armed.
C20_UnregisterConverges ==
  /\ regHist.unregisterCalled
  /\ nict = {}
  /\ \A t \in armed : t.id \notin regHist.timersThen
  => ~registered /\ armed = {}

\* C21, as stated: a closure of the transport leaves no refresh timer armed
\* and the registrator not registered, emits unregistered when it was
\* registered, and sends nothing, with or without a public GRUU.
C21_ClosureUnregisters ==
  transportUp /\ registrator
  => LET r == UaOnTransportClosed(RegWorld)
     IN /\ r.armed = {}
        /\ ~r.registered
        /\ registered => \E i \in 1..Len(r.emitted) :
                            r.emitted[i] = "unregistered"
        /\ r.out = <<>>

\* C22, as stated: with the UA user-closed, the constructor of a
\* RequestSender for a method other than BYE and ACK signals a transport
\* error to the applicant and sends nothing; for BYE and for ACK it signals
\* no error and send() puts the request on the wire.
C22_UserClosedRejectsAllButByeAndAck ==
  ~sender.constructed /\ sender.status = "user_closed"
  => LET r == RequestSender_constructor(sender)
     IN IF sender.method \notin {"BYE", "ACK"}
        THEN r.errors = 1 /\ r.sent = <<>>
        ELSE r.errors = 0 /\ RequestSender_send(r).sent = <<sender.cseq>>

\* C23: a sender resends at most twice, the second time only for a stale
\* challenge; the CSeqs it sends increase strictly; a response is either
\* answered by one resend or delivered to the applicant, and it is resent
\* only when it is a 401 or 407 with a valid challenge, the UA has
\* credentials, and it is the first such or the first stale one after it.
C23_ChallengeRetriesEnd ==
  /\ Len(sender.sent) <= 3
  /\ Len(sender.sent) = 3 => sender.staled
  /\ Len(sender.sent) >= 2 => sender.challenged
  /\ \A i, j \in 1..Len(sender.sent) :
       i < j => sender.sent[i] < sender.sent[j]
  /\ sender.delivered + Len(sender.sent) =
       sender.responses + (IF sender.sent = <<>> THEN 0 ELSE 1)
  /\ \A response \in [status_code : {200, 401, 407},
                      challenge : {"none", "invalid", "valid"},
                      stale : BOOLEAN] :
       LET r == RequestSender_receiveResponse(sender, response)
       IN IF /\ response.status_code \in {401, 407}
             /\ sender.credentials /\ response.challenge = "valid"
             /\ ~sender.challenged \/ (~sender.staled /\ response.stale)
          THEN /\ r.sent = Append(sender.sent, r.cseq)
               /\ r.cseq > sender.cseq
               /\ r.delivered = sender.delivered
          ELSE /\ r.sent = sender.sent
               /\ r.delivered = sender.delivered + 1

\* A sender that has resent twice and has been handed a further challenge.
C23_Witness ==
  /\ Len(sender.sent) = 3
  /\ sender.delivered >= 1
  /\ sender.credentials

\* The connection ua.transport holds is open.
TransportOpen ==
  ua.transport # 0 /\ ua.transports[ua.transport] = "open"

\* C24: the UA's status is Ready exactly when its transport is open and the
\* user has not stopped the UA.
C24_ReadyIffTransportOpen ==
  (ua.status = "ready") <=> (TransportOpen /\ ~ua.stopped)

\* C28: server selection never returns a server whose status is Error and
\* always returns one of the greatest weight among the others, none only
\* when all are in Error; a server that failed is not selected again before
\* recovery has reset the servers.
C28_SelectsBestLiveServer ==
  /\ \A server \in getNextWsServer(ua) \ {0} :
        /\ ua.wsStatus[server] # 2
        /\ \A other \in 1..NServers :
              ua.wsStatus[other] # 2 => ua.weight[other] <= ua.weight[server]
  /\ 0 \in getNextWsServer(ua) <=> \A server \in 1..NServers : ua.wsStatus[server] = 2
  /\ ua.reselected = {}

\* The server of greater weight has failed and the UA is connecting to the
\* other one.
C28_Witness ==
  /\ ua.errored # {}
  /\ ua.transport \notin ua.errored \cup {0}
  /\ ua.transports[ua.transport] = "connecting"
  /\ \E failed \in ua.errored : ua.weight[failed] > ua.weight[ua.transport]

\* The requests receiveRequest dispatches itself: those for this user that
\* no transaction absorbs.
Dispatched ==
  {request \in InboundRequests : request.ruri_ours /\ ~request.duplicate}

\* C25: every OPTIONS and every MESSAGE is given exactly one final
\* response, 200 in the case of OPTIONS, and never a second one.
C25_OneFinalResponse ==
  \A request \in Dispatched :
    request.method \in {"OPTIONS", "MESSAGE"} =>
      LET d == UA_receiveRequest(inbound, request)
      IN /\ Len(d.replies) = 1
         /\ request.method = "OPTIONS" => d.replies = <<200>>

\* C26: whether the UA is registered matters to an initial INVITE only: an
\* unregistered UA answers it 410 and makes no session, while a BYE
\* outside a dialog is answered 481 and an unsupported method 405 whether
\* the UA is registered or not.
C26_RegistrationGatesInviteOnly ==
  \A request \in Dispatched :
    request.to_tag = "" =>
      LET d == UA_receiveRequest(inbound, request)
      IN /\ request.method = "INVITE" /\ ~inbound.registered =>
              d.replies = <<410>> /\ ~d.created
         /\ request.method = "BYE" => d.replies = <<481>>
         /\ request.method \in {"NOTIFY", "INFO"} => d.replies = <<405>>

\* C27: a CANCEL outside a dialog is handed to the session it matches, and
\* answered 481 when it matches none.
C27_CancelRoutedOrRejected ==
  \A request \in Dispatched :
    request.method = "CANCEL" /\ request.to_tag = "" =>
      LET d == UA_receiveRequest(inbound, request)
      IN IF findSession(inbound, request) # <<>>
         THEN d.toSession = findSession(inbound, request) /\ d.replies = <<>>
         ELSE d.replies = <<481>>

\* C29: an outgoing Message emits exactly one of succeeded and failed, on
\* the first final response, timeout or transport error, is closed from
\* then on and ignores the callbacks that follow.
C29_OneOutcomeThenClosed ==
  /\ Len(msg.emitted) <= 1
  /\ msg.finals > 0 /\ ~msg.userClosed =>
       Len(msg.emitted) = 1 /\ msg.closed

\* C30: a re-INVITE answered 491 is sent again exactly once, with a CSeq
\* one higher, after 2.1 to 4.0 seconds in an outgoing session and 0 to 2.0
\* seconds in an incoming one, and only if the session has not terminated
\* when the delay ends; a second 491 is passed to the applicant and causes
\* no further attempt.
C30_OneReattemptAfterDelay ==
  /\ Len(reinvite.sent) <= 2
  /\ Len(reinvite.sent) = 2 => reinvite.sent[2] = reinvite.sent[1] + 1
  /\ reinvite.timer # -1 =>
       IF reinvite.direction = "outgoing"
       THEN reinvite.timer \in 2100000..4000000
       ELSE reinvite.timer \in 0..2000000
  /\ reinvite.timer # -1 /\ reinvite.status = "terminated" =>
       Reinvite_reattempt(reinvite).sent = reinvite.sent
  /\ reinvite.pending /\ Len(reinvite.sent) = 2 =>
       \A percent \in {0, 50, 100} :
         LET r == Reinvite_receiveResponse(reinvite, 491, percent)
         IN r.delivered = Append(reinvite.delivered, 491) /\ r.timer = -1

\* C34: when every server has failed the reconnect delay is k times the
\* minimum interval, k from 1 to 2^attempts; a delay above the maximum
\* interval is cut down to the maximum and restarts the count of attempts;
\* a transport that connects sets the count to 0.
C34_RecoveryDelayCapped ==
  /\ \A k \in 1..(2 ^ ua.transportRecoverAttempts) :
       LET recovery == recoverTransport(ServersReset(ua), 1, k).recovery
       IN IF k * MinInterval > MaxInterval
          THEN recovery.nextRetry = MaxInterval /\ recovery.count = 0
          ELSE /\ recovery.nextRetry = k * MinInterval
               /\ recovery.count = ua.transportRecoverAttempts
  /\ \A transport \in 1..NServers :
       UA_onTransportConnected(ua, transport).transportRecoverAttempts = 0

\* C40: from stop() until the user calls start() the UA's status stays
\* UserClosed, whatever the transport reports.
C40_StoppedStaysUserClosed ==
  ua.stopped => ua.status = "user_closed"

\* C38: at most one registration refresh timer is armed at any time.
C38_OneRefreshTimer ==
  Cardinality(armed) <= 1

\* C39: the registrator becomes registered, and emits registered, only on a
\* 2xx to the latest REGISTER that has a Contact with the UA's own URI; a
\* 2xx without such a Contact leaves registered as it was and arms no timer.
C39_RegisteredOnlyByOwnContact ==
  \A t \in nict : \A response \in RegisterResponses(t.cseq) :
    LET r == receiveResponse(RegWorld, response)
    IN /\ \/ r.registered /\ ~registered
          \/ \E i \in 1..Len(r.emitted) : r.emitted[i] = "registered"
          =>
            /\ response.status_code = 200
            /\ response.cseq = cseq
            /\ OurContact(response) # 0
       /\ response.status_code = 200 /\ OurContact(response) = 0 =>
            r.registered = registered /\ r.armed = armed

\* The times at which the 200 left, the first being the 200 itself.
Sent200 == SelectSeq(ackWait.sent, LAMBDA m : m.method = "200")

\* C33: after the 200 of an incoming INVITE has left, it is sent again T1
\* later and then after twice the previous interval, T2 at most, for as long
\* as the session waits for the ACK; nothing is sent again once the ACK has
\* come; and TIMER_H after the 200 without an ACK the session sends BYE and
\* emits ended with cause NO_ACK.
C33_Retransmit2xxUntilAckOrTimerH ==
  LET n == Len(Sent200)
      interval(i) == Min(2 ^ (i - 1) * T1, T2)
  IN /\ \A i \in 1..(n - 1) : Sent200[i + 1].at - Sent200[i].at = interval(i)
     /\ ackWait.status = "waiting_for_ack" =>
          /\ ackWait.invite2xxTimer = Sent200[n].at + interval(n)
          /\ ackWait.ackTimer = Sent200[1].at + TIMER_H
          /\ ackWait.now <= ackWait.invite2xxTimer
          /\ ackWait.now <= ackWait.ackTimer
     /\ ackWait.status = "confirmed" =>
          /\ ackWait.invite2xxTimer = -1 /\ ackWait.ackTimer = -1
          /\ ackWait.sent = Sent200
          /\ Sent200[n].at <= ackWait.ackAt
          /\ ackWait.ackAt <= Sent200[1].at + TIMER_H
     /\ ackWait.status = "terminated" =>
          /\ ackWait.acks = 0
          /\ ackWait.sent =
               Append(Sent200, [method |-> "BYE", at |-> Sent200[1].at + TIMER_H])
          /\ ackWait.emitted = <<"accepted", "ended:NO_ACK">>
          /\ ackWait.invite2xxTimer = -1

\* C33's case: no ACK came, the 200 left again at intervals that reached T2,
\* and the session ended with NO_ACK.
C33_Witness ==
  /\ ackWait.status = "terminated"
  /\ Len(Sent200) > 5
  /\ Sent200[6].at - Sent200[5].at = T2
  /\ ackWait.emitted = <<"accepted", "ended:NO_ACK">>

\* C36: a session emits one terminal event, failed or ended, at most, and
\* after it none of progress, accepted and confirmed: no event of a session's
\* lifetime follows its terminal event.
C36_OneTerminalEventThenSilence == hist.afterTerminal = {}

\* C37: on an outgoing call no BYE leaves on the session's dialog before the
\* ACK of the 2xx has left on it, terminate() being called while the answer
\* of the 2xx is applied included.
C37_NoByeBeforeAck == ~hist.byeBeforeAck

\* The senders of tones that have a timer pending.
ToneSenders == { c \in 1..Len(dtmf.senders) : dtmf.senders[c].timer }

\* C35: whatever the order of sendDTMF calls, failures and timers, a session
\* has one sender of tones at most; the tones leave in the order in which
\* they were queued, none of them twice and never a ","; and no tone leaves
\* that was queued behind a tone whose INFO failed.
C35_OneToneSenderInOrder ==
  /\ Cardinality(ToneSenders) <= 1
  /\ \A i \in 1..Len(dtmf.sent) :
       /\ dtmf.sent[i].tone # ","
       /\ dtmf.sent[i].id \notin dtmf.dropped
       /\ \A j \in 1..(i - 1) : dtmf.sent[j].id < dtmf.sent[i].id

\* C31: the scheme and the host of a URI are in lower case in every state,
\* and so are they in what toString() and toAor() print, however they were
\* given; the URI parsed from what toString() prints equals the URI.
C31_SchemeAndHostLowerCase ==
  LET u == uri.object
  IN /\ u.scheme = toLowerCase(u.scheme)
     /\ u.host = toLowerCase(u.host)
     /\ URI_toAor(u) =
          toLowerCase(IF u.scheme = <<>> THEN <<"s", "i", "p">> ELSE u.scheme)
          \o <<":">>
          \o (IF u.user # <<>> THEN escapeUser(u.user) \o <<"@">> ELSE <<>>)
          \o toLowerCase(u.host)
     /\ URI_parse(u.definition, URI_toString(u)) = u

\* C32: toString() of a NameAddrHeader puts the URI between angle brackets,
\* with a display name and without one, and the header parsed from what it
\* prints has the same display name, the same parameters and the same URI:
\* no parameter of the header becomes one of the URI, nor the other way.
C32_BracketsAlwaysAndRoundTrip ==
  LET printed == NameAddrHeader_toString(nameAddr.header)
  IN /\ IndexOf(printed, "<") # 0
     /\ NameAddrHeader_parse(printed) = nameAddr.header

====
